---- MODULE Spec2Model ----
(***************************************************************************)
(* SuperBoot: a model of the Linux loader (boot/linux.c), the VFS mount    *)
(* table (fs/vfs.c), the ext4 reader (fs/ext4.c) and the scanner           *)
(* (scan/scan.c).  Each subsystem has its own specification over the       *)
(* shared variables; a specification leaves the other subsystems' state    *)
(* at its initial value.                                                   *)
(***************************************************************************)
EXTENDS Integers, Sequences, FiniteSets, TLC

VARIABLES
    \* ---- Linux loader (boot/linux.c) ----
    pc,          \* position inside sb_boot_linux / boot_* (or "idle")
    kernel,      \* the kernel image read from disk: size and setup header
    bp,          \* LinuxBootParams being assembled (NoBp before allocation)
    live,        \* pool buffers and page ranges currently allocated
    fw,          \* firmware: memory-map key, descriptor count, exited flag
    calls,       \* firmware services invoked so far, in order
    loc,         \* locals of boot_legacy_bzimage: mmap_size, map_key, ...
    ret,         \* status returned by sb_boot_linux ("none" while running)
    handoff,     \* the hand-off performed: kind and the zero page passed
    target       \* the BootTarget being booted

VARIABLES
    \* ---- ext4 reader (fs/ext4.c) ----
    vol,         \* the ext4 volume on the device: superblock, inodes, blocks
    e4ctx,       \* the Ext4Context ext4_mount built (mounted = FALSE before)
    e4           \* the last driver callback made and what it handed back

VARIABLES
    \* ---- VFS dispatcher (fs/vfs.c) ----
    mounts,      \* static VfsMount mounts[VFS_MAX_MOUNTS]
    mount_count, \* static UINTN mount_count
    seen,        \* device handles met so far (handles are numbered as met)
    vfsCall      \* the last VFS call: arguments, table before it, outcome

VARIABLES
    \* ---- scanner (scan/scan.c) ----
    handles,     \* the handle buffer LocateHandleBuffer returned
    targets,     \* ctx->targets: entries[SB_MAX_TARGETS] and count
    scan,        \* position inside sb_scan_all_devices: pc, i, pp, path, ret
    parseCall,   \* the last parser->parse call: slice, slots written, result
    visited,     \* <<i, 0>>: partition i was opened; <<i, pp>>: parser pp ran
    swallowed,   \* kinds of failure met so far by the scan
    probes       \* passes of the config-path loop made so far

VARIABLES
    \* ---- parser invocations (config/) ----
    pin,         \* arguments of parse: parser, bytes, device, path, capacity
    pruns        \* the invocations made on pin so far, in order

VARIABLES
    \* ---- memory map conversion (boot/linux.c) ----
    conv         \* the sb_efi_memmap_to_e820 call made: arguments and output

VARIABLES
    \* ---- path resolution (fs/ext4.c) ----
    rp           \* the ext4_resolve_path call made: path, failures, inode

VARIABLES
    \* ---- orchestrator (main.c) ----
    main         \* position inside efi_main, entry selected, status returned

VARIABLES
    \* ---- setup size (boot/linux.c) ----
    sizing       \* one computation of setup_size and of the handover entry

VARIABLES
    \* ---- default marking (config/systemd_boot.c) ----
    dm           \* one systemd_boot_parse call: loader.conf, entry files, output

VARIABLES
    \* ---- efi_main after the boot attempt (main.c) ----
    mainCalls    \* firmware calls efi_main made once sb_boot_selected returned

bootVars == <<pc, kernel, bp, live, fw, calls, loc, ret, handoff, target>>
ext4Vars == <<vol, e4ctx, e4>>
vfsVars == <<mounts, mount_count, seen, vfsCall>>
scanVars == <<handles, targets, scan, parseCall, visited, swallowed,
              probes>>
parseVars == <<pin, pruns>>
convVars == <<conv>>
resolveVars == <<rp>>
mainVars == <<main>>
sizingVars == <<sizing>>
defaultVars == <<dm>>
afterVars == <<mainCalls>>

vars == <<bootVars, ext4Vars, vfsVars, scanVars, parseVars, convVars, resolveVars, mainVars, sizingVars, defaultVars, afterVars>>

\* what the boot path leaves alone
othersOfBoot == <<ext4Vars, vfsVars, scanVars, parseVars, convVars, resolveVars, mainVars, sizingVars, defaultVars, afterVars>>
\* what the ext4 callbacks leave alone
othersOfExt4 == <<bootVars, vfsVars, scanVars, parseVars, convVars, resolveVars, mainVars, sizingVars, defaultVars, afterVars>>
\* what the VFS calls leave alone
othersOfVfs == <<bootVars, ext4Vars, scanVars, parseVars, convVars, resolveVars, mainVars, sizingVars, defaultVars, afterVars>>
\* what the scanner leaves alone; it mounts devices through the VFS
othersOfScan == <<bootVars, ext4Vars, seen, vfsCall, parseVars, convVars, resolveVars, mainVars, sizingVars, defaultVars, afterVars>>
\* what a parse call on its own leaves alone
othersOfParse == <<bootVars, ext4Vars, vfsVars, scanVars, convVars, resolveVars, mainVars, sizingVars, defaultVars, afterVars>>
\* what a conversion of a memory map on its own leaves alone
othersOfConv == <<bootVars, ext4Vars, vfsVars, scanVars, parseVars, resolveVars, mainVars, sizingVars, defaultVars, afterVars>>
\* what a path resolution on its own leaves alone: the volume stays mounted
othersOfResolve == <<bootVars, ext4Vars, vfsVars, scanVars, parseVars, convVars, mainVars, sizingVars, defaultVars, afterVars>>
\* what efi_main after the scan leaves alone; booting reads through the VFS
othersOfMain == <<bootVars, ext4Vars, seen, vfsCall, scanVars, parseVars, convVars,
                  resolveVars, sizingVars, defaultVars, afterVars>>
\* what setup size (boot/linux.c) leaves alone
othersOfSizing == <<bootVars, ext4Vars, vfsVars, scanVars, parseVars, convVars, resolveVars, mainVars, defaultVars, afterVars>>
\* what default marking (config/systemd_boot.c) leaves alone
othersOfDefault == <<bootVars, ext4Vars, vfsVars, scanVars, parseVars, convVars, resolveVars, mainVars, sizingVars, afterVars>>
\* what efi_main after the boot attempt (main.c) leaves alone
othersOfAfter == <<bootVars, ext4Vars, vfsVars, scanVars, parseVars, convVars, resolveVars, mainVars, sizingVars, defaultVars>>

(***************************************************************************)
(* Bounds of the model                                                     *)
(***************************************************************************)
\* descriptors in the firmware memory map when the loader starts
BaseDescs == 3
\* most descriptors one map-changing firmware event adds to the memory map
MaxGrow == 5
\* size in bytes of one firmware memory descriptor (firmware-defined stride)
desc_size == 48

(***************************************************************************)
(* Program constants                                                       *)
(***************************************************************************)
SUPERBOOT_LOADER_ID == 255
LINUX_CAN_USE_HEAP == 128
HEAP_END_PTR == 65024
E820_MAX == 128
MIN_KERNEL_SIZE == 608
HANDOVER_MIN_VERSION == 523
\* 0x0206, defined in boot/loader.h and compared with nothing
LINUX_MIN_BOOT_VERSION == 518
MMAP_SLACK == 4
PAGE_SIZE == 4096

EFI_SUCCESS == "EFI_SUCCESS"
EFI_LOAD_ERROR == "EFI_LOAD_ERROR"
EFI_INVALID_PARAMETER == "EFI_INVALID_PARAMETER"
EFI_UNSUPPORTED == "EFI_UNSUPPORTED"
EFI_BUFFER_TOO_SMALL == "EFI_BUFFER_TOO_SMALL"
EFI_OUT_OF_RESOURCES == "EFI_OUT_OF_RESOURCES"
EFI_NOT_FOUND == "EFI_NOT_FOUND"
EFI_DEVICE_ERROR == "EFI_DEVICE_ERROR"
EFI_VOLUME_CORRUPTED == "EFI_VOLUME_CORRUPTED"

EFI_ERROR(s) == s # EFI_SUCCESS

Min(a, b) == IF a < b THEN a ELSE b
Max(a, b) == IF a < b THEN b ELSE a

(***************************************************************************)
(* Firmware (UEFI boot services) as the loader sees it.  Addresses are     *)
(* counted in 4 KiB units.  Every allocation and free gives the memory map *)
(* a new key.  The allocation of the map buffer itself and a notification  *)
(* run by ExitBootServices, the two events inside the window in which the  *)
(* loader looks at the map, may also leave it with any descriptor count    *)
(* between BaseDescs and BaseDescs + MaxGrow.                              *)
(***************************************************************************)
GrowChoices == {0, 1, MaxGrow}

\* EFI_MEMORY_TYPE values
EfiReservedMemoryType == 0
EfiLoaderCode == 1
EfiLoaderData == 2
EfiBootServicesCode == 3
EfiBootServicesData == 4
EfiRuntimeServicesCode == 5
EfiConventionalMemory == 7
EfiACPIReclaimMemory == 9
EfiACPIMemoryNVS == 10

FwTypeCycle == <<EfiConventionalMemory, EfiLoaderData, EfiACPIReclaimMemory,
                 EfiReservedMemoryType, EfiBootServicesData, EfiLoaderCode,
                 EfiACPIMemoryNVS>>

\* The firmware's memory map at map key `key` with n descriptors.
FwMap(key, n) ==
    [i \in 1..n |->
        [Type          |-> FwTypeCycle[((i + key) % Len(FwTypeCycle)) + 1],
         PhysicalStart |-> (i - 1) * 2 * PAGE_SIZE,
         NumberOfPages |-> 1 + ((i + key) % 2)]]

FwInit == [key |-> 1, descs |-> BaseDescs, exited |-> FALSE]

\* the firmware after a map-changing event that leaves g extra descriptors
FwChanged(f, g) == [f EXCEPT !.key = @ + 1, !.descs = BaseDescs + g]

\* an allocation or free served inside an existing descriptor: the map gets
\* a new key and keeps its descriptor count
FwAllocated(f) == [f EXCEPT !.key = @ + 1]

\* EFI_BOOT_SERVICES.GetMemoryMap(&size, buf, &key, &desc_size, &ver)
GetMemoryMap(f, size, bufIsNull) ==
    LET need == f.descs * desc_size IN
    IF bufIsNull \/ size < need
    THEN [status |-> EFI_BUFFER_TOO_SMALL, mmap_size |-> need,
          map_key |-> f.key, map |-> <<>>]
    ELSE [status |-> EFI_SUCCESS, mmap_size |-> need,
          map_key |-> f.key, map |-> FwMap(f.key, f.descs)]

\* EFI_BOOT_SERVICES.ExitBootServices(image, key) when the notifications it
\* runs leave the memory map alone: the key decides.
ExitBootServicesQuiet(f, key) ==
    IF key = f.key
    THEN [status |-> EFI_SUCCESS, fw |-> [f EXCEPT !.exited = TRUE]]
    ELSE [status |-> EFI_INVALID_PARAMETER, fw |-> f]

\* ... and when a notification changes the memory map first: the key is stale.
ExitBootServicesNoisy(f, key, g) ==
    [status |-> EFI_INVALID_PARAMETER, fw |-> FwChanged(f, g)]

Call(op, ok, key) == [op |-> op, ok |-> ok, key |-> key]

(***************************************************************************)
(* EFI memory type -> E820 type, and the map conversion (boot/linux.c)     *)
(***************************************************************************)
efi_mem_to_e820_type(efi_type) ==
    IF efi_type \in {EfiLoaderCode, EfiLoaderData, EfiBootServicesCode,
                     EfiBootServicesData, EfiConventionalMemory} THEN 1
    ELSE IF efi_type = EfiACPIReclaimMemory THEN 3
    ELSE IF efi_type = EfiACPIMemoryNVS THEN 4
    ELSE 2

\* descriptors the walk `while (p < end)` visits with stride dsize
DescsWalked(mmap_size, dsize) == (mmap_size + dsize - 1) \div dsize

\* mutation: the walk merges on the type alone, abutting or not
RECURSIVE e820_walk_TypeOnly(_, _, _, _, _)
e820_walk_TypeOnly(mmap, i, n, e820, max_entries) ==
    IF i > n \/ Len(e820) >= max_entries THEN e820
    ELSE LET md   == mmap[i]
             type == efi_mem_to_e820_type(md.Type)
             size == md.NumberOfPages * PAGE_SIZE
             c    == Len(e820)
         IN IF c > 0 /\ e820[c].type = type
            THEN e820_walk_TypeOnly(mmap, i + 1, n,
                                    [e820 EXCEPT ![c].size = @ + size],
                                    max_entries)
            ELSE e820_walk_TypeOnly(mmap, i + 1, n,
                                    Append(e820, [addr |-> md.PhysicalStart,
                                                  size |-> size,
                                                  type |-> type]),
                                    max_entries)

RECURSIVE e820_walk(_, _, _, _, _)
e820_walk(mmap, i, n, e820, max_entries) ==
    IF i > n \/ Len(e820) >= max_entries THEN e820
    ELSE LET md   == mmap[i]
             type == efi_mem_to_e820_type(md.Type)
             addr == md.PhysicalStart
             size == md.NumberOfPages * PAGE_SIZE
             c    == Len(e820)
         IN IF c > 0 /\ e820[c].type = type
                     /\ e820[c].addr + e820[c].size = addr
            THEN e820_walk(mmap, i + 1, n,
                           [e820 EXCEPT ![c].size = @ + size], max_entries)
            ELSE e820_walk(mmap, i + 1, n,
                           Append(e820, [addr |-> addr, size |-> size,
                                         type |-> type]), max_entries)

sb_efi_memmap_to_e820(mmap, mmap_size, dsize, max_entries) ==
    e820_walk(mmap, 1, DescsWalked(mmap_size, dsize), <<>>, max_entries)

(***************************************************************************)
(* Inputs of the loader: the boot entry, the kernel image, read outcomes   *)
(***************************************************************************)
\* initrd files listed by the boot entry (SB_MAX_INITRDS = 8 in the code)
MaxInitrds == 1

HdrS == 1400005704

\* x | bit, for a single-bit mask
BitOr(x, bit) == IF (x \div bit) % 2 = 1 THEN x ELSE x + bit
BitSet(x, bit) == (x \div bit) % 2 = 1

\* (UINT32) of an address counted in 4 KiB units: 2^32 bytes are 2^20 units
Trunc32(a) == a % 1048576

SetupHeader(sects, magic, ver, tol, lf, reloc, pref, ho) ==
    [setup_sects |-> sects, header |-> magic, version |-> ver,
     type_of_loader |-> tol, loadflags |-> lf, code32_start |-> 256,
     ramdisk_image |-> 0, ramdisk_size |-> 0, heap_end_ptr |-> 0,
     cmd_line_ptr |-> 0, relocatable_kernel |-> reloc,
     pref_address |-> pref, handover_offset |-> ho]

\* images sb_boot_linux goes on with, and images it rejects
GoodImages ==
    { [size |-> 16384,
       hdr  |-> SetupHeader(4, HdrS, ver, tol, lf, reloc, 4096 * reloc, ho)] :
         ver \in {516, 524}, tol \in {0, 114}, lf \in {1, 129},
         reloc \in {0, 1}, ho \in {0, 400} }

BadImages ==
    { [size |-> 512,   hdr |-> SetupHeader(4, HdrS, 524, 0, 1, 1, 0, 400)],
      [size |-> 16384, hdr |-> SetupHeader(4, 0, 524, 0, 1, 1, 0, 400)] }

\* images of exactly 0x260 bytes: validation passes, the setup sectors the
\* header announces are not there
ShortImages ==
    { [size |-> MIN_KERNEL_SIZE,
       hdr  |-> SetupHeader(sects, HdrS, 524, 0, 1, 1, 4096, ho)] :
         sects \in {0, 255}, ho \in {0, 400} }

KernelImages == GoodImages \cup ShortImages \cup BadImages

NoKernel == [size |-> 0, hdr |-> SetupHeader(0, 0, 0, 0, 0, 0, 0, 0)]

\* what sb_vfs_read_file hands back: a status, whether *buffer is non-NULL,
\* and *size.  A native read that fails after the buffer was allocated
\* returns the error with the buffer still set (vfs.c:290-295).
ReadOk(sz) == [status |-> EFI_SUCCESS, buf |-> TRUE, size |-> sz]
ReadFailNoBuf == [status |-> EFI_NOT_FOUND, buf |-> FALSE, size |-> 0]
ReadFailWithBuf(sz) == [status |-> EFI_DEVICE_ERROR, buf |-> TRUE, size |-> sz]

InitrdReads == {ReadOk(0), ReadOk(5000), ReadFailNoBuf, ReadFailWithBuf(3000)}

NoBp == [allocated |-> FALSE, hdr |-> NoKernel.hdr,
         e820_entries |-> 0, e820_table |-> <<>>]

NoLoc == [kernel_addr |-> 0, initrd_addr |-> 0, initrd_size |-> 0,
          region |-> <<>>, mmap_size |-> 0, map_key |-> 0, mmap |-> <<>>,
          mmap_cap |-> 0, overrun |-> 0, cmdline |-> 0,
          status |-> EFI_SUCCESS, reads |-> <<>>,
          copy |-> [done |-> FALSE, from |-> 0, len |-> 0, pages |-> 0]]

\* a live allocation: which buffer, and for per-file buffers which file
Buf(kind, i) == [kind |-> kind, idx |-> i]

Targets == [initrd_count : 0..MaxInitrds, cmdline : {"root=/dev/sda1 rw"}]

NoHandoff == [kind |-> "none", bp |-> NoBp, entry |-> 0]

\* addresses (4 KiB units) the firmware hands out
LowPages == 2048
HighPages == 1048576 + 512
PoolAddrs == {1024, 1048576 + 64}

\* no boot attempt is under way
IdleBoot ==
    /\ pc = "idle"
    /\ kernel = NoKernel
    /\ bp = NoBp
    /\ live = {}
    /\ fw = FwInit
    /\ calls = <<>>
    /\ loc = NoLoc
    /\ ret = "none"
    /\ handoff = NoHandoff
    /\ target = [initrd_count |-> 0, cmdline |-> "root=/dev/sda1 rw"]

InitBoot ==
    /\ pc = "idle"
    /\ kernel = NoKernel
    /\ bp = NoBp
    /\ live = {}
    /\ fw = FwInit
    /\ calls = <<>>
    /\ loc = NoLoc
    /\ ret = "none"
    /\ handoff = NoHandoff
    /\ target \in Targets

\* return `status` from sb_boot_linux
Return(status) == /\ pc' = "returned"
                  /\ ret' = status

(***************************************************************************)
(* sb_boot_linux: load and validate the kernel image                       *)
(***************************************************************************)
ReadKernel ==
    /\ pc = "idle"
    /\ \E r \in {ReadOk(0), ReadFailNoBuf, ReadFailWithBuf(0)} :
         IF r.buf
         THEN /\ fw' = FwAllocated(fw)
              /\ live' = live \cup {Buf("kernel_buf", 0)}
              /\ IF EFI_ERROR(r.status)
                 THEN /\ calls' = calls \o <<Call("Print", TRUE, 0),
                                              Call("ReadFile", FALSE, 0),
                                              Call("AllocatePool", TRUE, 0),
                                              Call("Print", TRUE, 0)>>
                      /\ Return(r.status)
                      /\ UNCHANGED kernel
                 ELSE /\ calls' = calls \o <<Call("Print", TRUE, 0),
                                              Call("ReadFile", TRUE, 0),
                                              Call("AllocatePool", TRUE, 0)>>
                      /\ \E k \in KernelImages : kernel' = k
                      /\ pc' = "validate"
                      /\ UNCHANGED ret
         ELSE /\ calls' = calls \o <<Call("Print", TRUE, 0),
                                      Call("ReadFile", FALSE, 0),
                                      Call("Print", TRUE, 0)>>
              /\ Return(r.status)
              /\ UNCHANGED <<fw, live, kernel>>
    /\ UNCHANGED <<bp, loc, handoff, target>>
    /\ UNCHANGED othersOfBoot

ValidateKernel ==
    /\ pc = "validate"
    /\ IF kernel.size < MIN_KERNEL_SIZE \/ kernel.hdr.header # HdrS
       THEN /\ calls' = calls \o <<Call("Print", TRUE, 0),
                                    Call("FreePool", TRUE, 0)>>
            /\ live' = live \ {Buf("kernel_buf", 0)}
            /\ fw' = FwAllocated(fw)
            /\ Return(EFI_INVALID_PARAMETER)
       ELSE /\ calls' = Append(calls, Call("Print", TRUE, 0))
            /\ pc' = "load_initrds"
            /\ UNCHANGED <<live, fw, ret>>
    /\ UNCHANGED <<kernel, bp, loc, handoff, target>>
    /\ UNCHANGED othersOfBoot

(***************************************************************************)
(* load_initrds, and the log lines sb_boot_linux prints after it           *)
(***************************************************************************)
RECURSIVE SumOkSizes(_, _)
SumOkSizes(reads, n) ==
    IF n = 0 THEN 0
    ELSE SumOkSizes(reads, n - 1)
         + (IF EFI_ERROR(reads[n].status) THEN 0 ELSE reads[n].size)

\* firmware services one sb_vfs_read_file call and its caller's WARN use
RECURSIVE InitrdReadCalls(_, _)
InitrdReadCalls(reads, n) ==
    IF n = 0 THEN <<>>
    ELSE InitrdReadCalls(reads, n - 1)
         \o <<Call("ReadFile", ~EFI_ERROR(reads[n].status), 0)>>
         \o (IF reads[n].buf THEN <<Call("AllocatePool", TRUE, 0)>> ELSE <<>>)
         \o (IF EFI_ERROR(reads[n].status) THEN <<Call("Print", TRUE, 0)>>
             ELSE <<>>)

\* the copy loop: every non-NULL bufs[i] is copied, sizes[i] bytes each
RECURSIVE InitrdChunks(_, _)
InitrdChunks(reads, n) ==
    IF n = 0 THEN <<>>
    ELSE InitrdChunks(reads, n - 1)
         \o (IF reads[n].buf THEN <<[file |-> n, len |-> reads[n].size]>>
             ELSE <<>>)

RECURSIVE FreeCalls(_)
FreeCalls(n) == IF n = 0 THEN <<>>
                ELSE Append(FreeCalls(n - 1), Call("FreePool", TRUE, 0))

PagesFor(bytes) == (bytes + PAGE_SIZE - 1) \div PAGE_SIZE

LoadInitrds ==
    /\ pc = "load_initrds"
    /\ \E reads \in [1..target.initrd_count -> InitrdReads],
          pg \in {"low", "high", "fail"} :
         LET n      == target.initrd_count
             total  == SumOkSizes(reads, n)
             bufs   == {Buf("initrd_buf", i) : i \in {j \in 1..n : reads[j].buf}}
             rcalls == InitrdReadCalls(reads, n)
             cmdlog == <<Call("Print", TRUE, 0)>>
         IN IF n = 0
            THEN \* initrd_count == 0: return EFI_SUCCESS at once
                 /\ calls' = calls \o cmdlog
                 /\ loc' = [loc EXCEPT !.reads = reads]
                 /\ UNCHANGED <<live, fw>>
            ELSE IF total = 0
            THEN \* total == 0: return EFI_SUCCESS before the cleanup label
                 /\ calls' = calls \o rcalls \o cmdlog
                 /\ live' = live \cup bufs
                 /\ fw' = IF bufs = {} THEN fw ELSE FwAllocated(fw)
                 /\ loc' = [loc EXCEPT !.reads = reads]
            ELSE IF pg = "fail"
            THEN \* both AllocatePages calls fail: cleanup, return the error
                 /\ calls' = calls \o rcalls
                               \o <<Call("AllocatePages", FALSE, 0),
                                    Call("AllocatePages", FALSE, 0)>>
                               \o FreeCalls(Cardinality(bufs))
                               \o <<Call("Print", TRUE, 0)>> \o cmdlog
                 /\ fw' = FwAllocated(fw)
                 /\ loc' = [loc EXCEPT !.reads = reads]
                 /\ UNCHANGED live
            ELSE /\ calls' = calls \o rcalls
                               \o (IF pg = "low"
                                   THEN <<Call("AllocatePages", TRUE, 0)>>
                                   ELSE <<Call("AllocatePages", FALSE, 0),
                                          Call("AllocatePages", TRUE, 0)>>)
                               \o FreeCalls(Cardinality(bufs))
                               \o <<Call("Print", TRUE, 0)>> \o cmdlog
                 /\ fw' = FwAllocated(fw)
                 /\ live' = live \cup {Buf("initrd_pages", 0)}
                 /\ loc' = [loc EXCEPT
                              !.initrd_addr = IF pg = "low" THEN LowPages
                                              ELSE HighPages,
                              !.initrd_size = total,
                              !.region = InitrdChunks(reads, n),
                              !.reads = reads]
    /\ pc' = "choose"
    /\ UNCHANGED <<kernel, bp, ret, handoff, target>>
    /\ UNCHANGED othersOfBoot

(***************************************************************************)
(* sb_boot_linux: prefer the EFI handover protocol                         *)
(***************************************************************************)
ChoosePath ==
    /\ pc = "choose"
    /\ pc' = IF kernel.hdr.version >= HANDOVER_MIN_VERSION
                /\ kernel.hdr.handover_offset # 0
             THEN "handover" ELSE "legacy"
    /\ calls' = Append(calls, Call("Print", TRUE, 0))
    /\ UNCHANGED <<kernel, bp, live, fw, loc, ret, handoff, target>>
    /\ UNCHANGED othersOfBoot

\* mutation: fewer than four setup sectors are rounded up to four
setup_size_AtLeastFour(hdr) ==
    ((IF hdr.setup_sects < 4 THEN 4 ELSE hdr.setup_sects) + 1) * 512

\* setup_sects == 0 means 4; setup_size = (setup_sects + 1) * 512
setup_size(hdr) ==
    ((IF hdr.setup_sects = 0 THEN 4 ELSE hdr.setup_sects) + 1) * 512

\* kernel_base = kernel_buf + setup_size; the entry is handover_offset + 512
\* bytes into it
handover_entry(kernel_buf, hdr) ==
    kernel_buf + setup_size(hdr) + hdr.handover_offset + 512

\* mutation: the image's own loader id and load flags are kept
PrepareBootParams_KeepsImageFields(hdr) ==
    [allocated    |-> TRUE,
     hdr          |-> [hdr EXCEPT !.heap_end_ptr = HEAP_END_PTR],
     e820_entries |-> 0,
     e820_table   |-> <<>>]

\* the zero page right after AllocateZeroPool, the CopyMem of the setup
\* header and "Set loader identity"
PrepareBootParams(hdr) ==
    [allocated    |-> TRUE,
     hdr          |-> [hdr EXCEPT !.type_of_loader = SUPERBOOT_LOADER_ID,
                                  !.loadflags = BitOr(@, LINUX_CAN_USE_HEAP),
                                  !.heap_end_ptr = HEAP_END_PTR],
     e820_entries |-> 0,
     e820_table   |-> <<>>]

\* "Command line" and "Initrd": cl is the pool pointer, 0 when AllocatePool
\* returned NULL
SetCmdlineAndInitrd(b, cl, initrd_addr, initrd_size) ==
    [b EXCEPT !.hdr.cmd_line_ptr = IF cl # 0 THEN Trunc32(cl) ELSE @,
              !.hdr.ramdisk_image = Trunc32(initrd_addr),
              !.hdr.ramdisk_size = initrd_size]

(***************************************************************************)
(* boot_efi_handover                                                       *)
(***************************************************************************)
EfiHandover ==
    /\ pc = "handover"
    /\ IF kernel.hdr.handover_offset = 0
       THEN \* EFI_UNSUPPORTED: sb_boot_linux falls through to legacy
            /\ pc' = "legacy"
            /\ calls' = Append(calls, Call("Print", TRUE, 0))
            /\ UNCHANGED <<bp, live, fw, ret, handoff, loc>>
       ELSE \E bpOk \in BOOLEAN, cl \in PoolAddrs \cup {0} :
              IF ~bpOk
              THEN /\ calls' = Append(calls, Call("AllocatePool", FALSE, 0))
                   /\ Return(EFI_OUT_OF_RESOURCES)
                   /\ UNCHANGED <<bp, live, fw, handoff, loc>>
              ELSE LET b == SetCmdlineAndInitrd(
                                PrepareBootParams(kernel.hdr), cl,
                                loc.initrd_addr, loc.initrd_size)
                   IN /\ bp' = b
                      /\ loc' = [loc EXCEPT !.cmdline = cl]
                      /\ live' = live \cup {Buf("bp", 0)}
                                   \cup (IF cl # 0 THEN {Buf("cmdline", 0)}
                                         ELSE {})
                      /\ fw' = FwAllocated(fw)
                      /\ calls' = calls \o <<Call("AllocatePool", TRUE, 0),
                                              Call("AllocatePool", cl # 0, 0),
                                              Call("Print", TRUE, 0)>>
                      /\ handoff' = [kind  |-> "handover", bp |-> b,
                                     \* as an offset into kernel_buf
                                     entry |-> handover_entry(0, kernel.hdr)]
                      /\ pc' = "handed_over"
                      /\ UNCHANGED ret
    /\ UNCHANGED <<kernel, target>>
    /\ UNCHANGED othersOfBoot

\* the handover entry "does NOT return"; if it does, EFI_LOAD_ERROR
HandoverReturns ==
    /\ pc = "handed_over"
    /\ Return(EFI_LOAD_ERROR)
    /\ UNCHANGED <<kernel, bp, live, fw, calls, loc, handoff, target>>
    /\ UNCHANGED othersOfBoot

(***************************************************************************)
(* boot_legacy_bzimage                                                     *)
(***************************************************************************)
LegacyAllocBp ==
    /\ pc = "legacy"
    /\ \E ok \in BOOLEAN :
         IF ok
         THEN /\ bp' = PrepareBootParams(kernel.hdr)
              /\ live' = live \cup {Buf("bp", 0)}
              /\ fw' = FwAllocated(fw)
              /\ calls' = Append(calls, Call("AllocatePool", TRUE, 0))
              /\ pc' = "legacy_kernel"
              /\ UNCHANGED ret
         ELSE /\ calls' = Append(calls, Call("AllocatePool", FALSE, 0))
              /\ Return(EFI_OUT_OF_RESOURCES)
              /\ UNCHANGED <<bp, live, fw>>
    /\ UNCHANGED <<kernel, loc, handoff, target>>
    /\ UNCHANGED othersOfBoot

AnyAddrs == {8192, 1048576 + 8192}

\* kernel_size - setup_size in UINTN: a negative number stands for the value
\* 2^64 larger, which is what the subtraction wraps to
kernel_raw_size(k) == k.size - setup_size(k.hdr)

\* (kernel_raw_size + 4095) / 4096 in UINTN: 0 when the addition wraps back
\* past zero, negative (for a count near 2^52) when it does not
kernel_pages(raw) == (raw + 4095) \div PAGE_SIZE

\* the CopyMem into the destination: source offset, length, pages behind it
KernelCopy(k) ==
    [done |-> TRUE, from |-> setup_size(k.hdr), len |-> kernel_raw_size(k),
     pages |-> kernel_pages(kernel_raw_size(k))]

\* AllocatePages at the preferred address, then anywhere if relocatable,
\* then the copy and code32_start.  No firmware has the pages a wrapped
\* count asks for; whether a request for 0 pages succeeds is the
\* firmware's choice.  A copy of a wrapped length runs off both buffers.
LegacyAllocKernel ==
    /\ pc = "legacy_kernel"
    /\ LET raw   == kernel_raw_size(kernel)
           pages == kernel_pages(raw)
           pref  == IF kernel.hdr.pref_address = 0 THEN 256
                    ELSE kernel.hdr.pref_address
           reloc == kernel.hdr.relocatable_kernel # 0
       IN \E fixedOk \in BOOLEAN, any \in AnyAddrs \cup {0} :
            IF fixedOk /\ pages >= 0
            THEN /\ calls' = Append(calls, Call("AllocatePages", TRUE, 0))
                 /\ loc' = [loc EXCEPT !.kernel_addr = pref,
                                       !.copy = KernelCopy(kernel)]
                 /\ bp' = IF raw < 0 THEN bp
                          ELSE [bp EXCEPT !.hdr.code32_start = Trunc32(pref)]
                 /\ live' = live \cup {Buf("kernel_pages", 0)}
                 /\ fw' = FwAllocated(fw)
                 /\ pc' = IF raw < 0 THEN "fault" ELSE "legacy_cmdline"
                 /\ UNCHANGED ret
            ELSE IF reloc /\ any # 0 /\ pages >= 0
            THEN /\ calls' = calls \o <<Call("AllocatePages", FALSE, 0),
                                         Call("AllocatePages", TRUE, 0)>>
                 /\ loc' = [loc EXCEPT !.kernel_addr = any,
                                       !.copy = KernelCopy(kernel)]
                 /\ bp' = IF raw < 0 THEN bp
                          ELSE [bp EXCEPT !.hdr.code32_start = Trunc32(any)]
                 /\ live' = live \cup {Buf("kernel_pages", 0)}
                 /\ fw' = FwAllocated(fw)
                 /\ pc' = IF raw < 0 THEN "fault" ELSE "legacy_cmdline"
                 /\ UNCHANGED ret
            ELSE /\ calls' = calls \o <<Call("AllocatePages", FALSE, 0)>>
                               \o (IF reloc
                                   THEN <<Call("AllocatePages", FALSE, 0)>>
                                   ELSE <<>>)
                 /\ Return(EFI_OUT_OF_RESOURCES)
                 /\ UNCHANGED <<loc, bp, live, fw>>
    /\ UNCHANGED <<kernel, handoff, target>>
    /\ UNCHANGED othersOfBoot

LegacyCmdline ==
    /\ pc = "legacy_cmdline"
    /\ \E cl \in PoolAddrs \cup {0} :
         /\ bp' = SetCmdlineAndInitrd(bp, cl, loc.initrd_addr, loc.initrd_size)
         /\ loc' = [loc EXCEPT !.cmdline = cl]
         /\ live' = live \cup (IF cl # 0 THEN {Buf("cmdline", 0)} ELSE {})
         /\ fw' = IF cl # 0 THEN FwAllocated(fw) ELSE fw
         /\ calls' = Append(calls, Call("AllocatePool", cl # 0, 0))
    /\ pc' = "legacy_mmap"
    /\ UNCHANGED <<kernel, ret, handoff, target>>
    /\ UNCHANGED othersOfBoot

\* "First call: get required buffer size", slack, AllocatePool(mmap_size)
LegacyMmapSize ==
    /\ pc = "legacy_mmap"
    /\ LET r    == GetMemoryMap(fw, 0, TRUE)
           size == r.mmap_size + desc_size * MMAP_SLACK
       IN \E ok \in BOOLEAN, g \in GrowChoices :
            IF ok
            THEN /\ calls' = calls \o <<Call("GetMemoryMap", FALSE, r.map_key),
                                         Call("AllocatePool", TRUE, 0)>>
                 /\ loc' = [loc EXCEPT !.mmap_size = size, !.mmap_cap = size,
                                       !.map_key = r.map_key]
                 /\ live' = live \cup {Buf("mmap", 0)}
                 /\ fw' = FwChanged(fw, g)
                 /\ pc' = "legacy_getmap"
                 /\ UNCHANGED ret
            ELSE /\ calls' = calls \o <<Call("GetMemoryMap", FALSE, r.map_key),
                                         Call("AllocatePool", FALSE, 0)>>
                 /\ Return(EFI_OUT_OF_RESOURCES)
                 /\ UNCHANGED <<loc, live, fw>>
    /\ UNCHANGED <<kernel, bp, handoff, target>>
    /\ UNCHANGED othersOfBoot

\* mutation: the key of the size query is kept
MapFetched_StaleKey(l, r) == [l EXCEPT !.mmap_size = r.mmap_size,
                                       !.mmap = r.map,
                                       !.status = r.status]

\* the out-parameters of a GetMemoryMap call that succeeded: mmap_size,
\* map_key and the descriptors in the buffer
MapFetched(l, r) == [l EXCEPT !.mmap_size = r.mmap_size,
                              !.map_key = r.map_key,
                              !.mmap = r.map,
                              !.status = r.status]

\* GetMemoryMap into the buffer, then the E820 conversion into the zero page
LegacyGetMap ==
    /\ pc = "legacy_getmap"
    /\ LET r == GetMemoryMap(fw, loc.mmap_size, FALSE)
       IN /\ calls' = Append(calls, Call("GetMemoryMap",
                                         ~EFI_ERROR(r.status), r.map_key))
          /\ IF EFI_ERROR(r.status)
             THEN /\ Return(r.status)
                  /\ UNCHANGED <<loc, bp>>
             ELSE LET e820 == sb_efi_memmap_to_e820(r.map, r.mmap_size,
                                                    desc_size, E820_MAX)
                  IN /\ loc' = MapFetched(loc, r)
                     /\ bp' = [bp EXCEPT !.e820_entries = Len(e820) % 256,
                                         !.e820_table = e820]
                     /\ pc' = "legacy_ebs"
                     /\ UNCHANGED ret
    /\ UNCHANGED <<kernel, live, fw, handoff, target>>
    /\ UNCHANGED othersOfBoot

\* one ExitBootServices(image_handle, key) call: the firmware's answers
EbsOutcomes(f, key) ==
    {ExitBootServicesQuiet(f, key)}
        \cup {ExitBootServicesNoisy(f, key, g) : g \in GrowChoices}

\* mutation: the status of ExitBootServices is not looked at
AfterFirstExit_Unchecked(status) == "jump"

\* `if (EFI_ERROR(status))` after the first ExitBootServices
AfterFirstExit(status) == IF EFI_ERROR(status) THEN "legacy_retry" ELSE "jump"

LegacyExit ==
    /\ pc = "legacy_ebs"
    /\ \E res \in EbsOutcomes(fw, loc.map_key) :
         /\ calls' = Append(calls, Call("ExitBootServices",
                                        ~EFI_ERROR(res.status), loc.map_key))
         /\ fw' = res.fw
         /\ loc' = [loc EXCEPT !.status = res.status]
         /\ pc' = AfterFirstExit(res.status)
    /\ UNCHANGED <<kernel, bp, live, ret, handoff, target>>
    /\ UNCHANGED othersOfBoot

\* "Re-fetch the map and try again": size query, GetMemoryMap into the
\* buffer already allocated, ExitBootServices once more.  The size handed
\* to the firmware is the queried size plus slack, not the capacity of the
\* buffer: a map that outgrew the buffer is written past its end, after
\* which the machine either carries on or faults.
LegacyRetry ==
    /\ pc = "legacy_retry"
    /\ LET r1   == GetMemoryMap(fw, 0, TRUE)
           size == r1.mmap_size + desc_size * MMAP_SLACK
           r2   == GetMemoryMap(fw, size, FALSE)
           over == Max(0, r2.mmap_size - loc.mmap_cap)
           refetch == <<Call("GetMemoryMap", FALSE, r1.map_key),
                        Call("GetMemoryMap", ~EFI_ERROR(r2.status),
                             r2.map_key)>>
       IN IF EFI_ERROR(r2.status)
          THEN /\ calls' = calls \o refetch
               /\ loc' = [loc EXCEPT !.mmap_size = r2.mmap_size,
                                     !.status = r2.status]
               /\ Return(r2.status)
               /\ UNCHANGED fw
          ELSE \E res \in EbsOutcomes(fw, r2.map_key), faults \in BOOLEAN :
                 IF over > 0 /\ faults
                 THEN /\ calls' = calls \o refetch
                      /\ loc' = [MapFetched(loc, r2) EXCEPT !.overrun = over]
                      /\ pc' = "fault"
                      /\ UNCHANGED <<fw, ret>>
                 ELSE /\ calls' = calls \o refetch \o
                            <<Call("ExitBootServices", ~EFI_ERROR(res.status),
                                   r2.map_key)>>
                      /\ fw' = res.fw
                      /\ loc' = [MapFetched(loc, r2) EXCEPT
                                    !.overrun = over, !.status = res.status]
                      /\ IF EFI_ERROR(res.status)
                         THEN Return(res.status)
                         ELSE pc' = "jump" /\ UNCHANGED ret
    /\ UNCHANGED <<kernel, bp, live, handoff, target>>
    /\ UNCHANGED othersOfBoot

\* POINT OF NO RETURN: entry(bp, NULL)
LegacyJump ==
    /\ pc = "jump"
    /\ handoff' = [kind |-> "legacy", bp |-> bp, entry |-> loc.kernel_addr]
    /\ pc' = "kernel"
    /\ UNCHANGED <<kernel, bp, live, fw, calls, loc, ret, target>>
    /\ UNCHANGED othersOfBoot

IdleAfter == mainCalls = <<>>

\* efi_main after sb_boot_selected came back ("If we reach here, booting
\* failed"): two log lines, then the file browser, which starts with
\* LocateHandleBuffer
BootFailed ==
    /\ pc = "returned"
    /\ mainCalls = <<>>
    /\ mainCalls' = <<Call("Print", TRUE, 0), Call("Print", TRUE, 0),
                      Call("LocateHandleBuffer", TRUE, 0)>>
    /\ UNCHANGED othersOfAfter

NextBoot ==
    \/ ReadKernel
    \/ ValidateKernel
    \/ LoadInitrds
    \/ ChoosePath
    \/ EfiHandover
    \/ HandoverReturns
    \/ LegacyAllocBp
    \/ LegacyAllocKernel
    \/ LegacyCmdline
    \/ LegacyMmapSize
    \/ LegacyGetMap
    \/ LegacyExit
    \/ LegacyRetry
    \/ LegacyJump
    \/ BootFailed

(***************************************************************************)
(* Properties of the hand-off (boot/linux.c)                               *)
(***************************************************************************)
EbsCalls == {i \in 1..Len(calls) : calls[i].op = "ExitBootServices"}

AllocatingOps == {"AllocatePool", "AllocatePages", "FreePool", "ReadFile"}

\* C1: on the legacy path every ExitBootServices call passes the map key
\* returned by the GetMemoryMap call that immediately precedes it: the
\* firmware call logged just before it is a successful GetMemoryMap (no
\* allocation, no other firmware service in between) and the key passed is
\* the key that call returned.  First attempt and retry alike.
C1_ExitKeyFromPrecedingGetMemoryMap ==
    \A i \in EbsCalls :
        /\ i > 1
        /\ calls[i - 1].op = "GetMemoryMap"
        /\ calls[i - 1].ok
        /\ calls[i - 1].key = calls[i].key

\* the retry has run and its ExitBootServices call was accepted
C1_Witness ==
    /\ Cardinality(EbsCalls) = 2
    /\ calls[Len(calls)].op = "ExitBootServices"
    /\ calls[Len(calls)].ok
    /\ pc = "jump"

C4_LoaderIdentityOnHandoff ==
    handoff.kind # "none" =>
        /\ handoff.bp.allocated
        /\ handoff.bp.hdr.type_of_loader = SUPERBOOT_LOADER_ID
        /\ BitSet(handoff.bp.hdr.loadflags, LINUX_CAN_USE_HEAP)

\* a handover hand-off of an image that carried another loader id and had
\* the heap bit clear
C4_Witness ==
    /\ handoff.kind = "handover"
    /\ kernel.hdr.type_of_loader = 114
    /\ ~BitSet(kernel.hdr.loadflags, LINUX_CAN_USE_HEAP)

(***************************************************************************)
(* Layout of the zero page (boot/loader.h, #pragma pack(1))                *)
(***************************************************************************)
Field(name, size) == [name |-> name, size |-> size]

\* LinuxSetupHeader, field by field
LinuxSetupHeaderFields ==
    << Field("setup_sects", 1), Field("root_flags", 2), Field("syssize", 4),
       Field("ram_size", 2), Field("vid_mode", 2), Field("root_dev", 2),
       Field("boot_flag", 2), Field("jump", 2), Field("header", 4),
       Field("version", 2), Field("realmode_swtch", 4),
       Field("start_sys_seg", 2), Field("kernel_version", 2),
       Field("type_of_loader", 1), Field("loadflags", 1),
       Field("setup_move_size", 2), Field("code32_start", 4),
       Field("ramdisk_image", 4), Field("ramdisk_size", 4),
       Field("bootsect_kludge", 4), Field("heap_end_ptr", 2),
       Field("ext_loader_ver", 1), Field("ext_loader_type", 1),
       Field("cmd_line_ptr", 4), Field("initrd_addr_max", 4),
       Field("kernel_alignment", 4), Field("relocatable_kernel", 1),
       Field("min_alignment", 1), Field("xloadflags", 2),
       Field("cmdline_size", 4), Field("hardware_subarch", 4),
       Field("hardware_subarch_data", 8), Field("payload_offset", 4),
       Field("payload_length", 4), Field("setup_data", 8),
       Field("pref_address", 8), Field("init_size", 4),
       Field("handover_offset", 4) >>

\* sizeof of a packed struct: the sum of its members' sizes
RECURSIVE SizeOfFirst(_, _)
SizeOfFirst(fields, n) ==
    IF n = 0 THEN 0 ELSE SizeOfFirst(fields, n - 1) + fields[n].size

SizeOf(fields) == SizeOfFirst(fields, Len(fields))

\* offsetof(struct, name) of a packed struct
OffsetOf(fields, name) ==
    LET i == CHOOSE j \in 1..Len(fields) : fields[j].name = name
    IN SizeOfFirst(fields, i - 1)

\* LinuxBootParams: UINT8 screen_info[64]; UINT8 _pad1[0x1C0 - 64];
\* UINT8 e820_entries; UINT8 _pad2[0x1F1 - 0x1E9]; LinuxSetupHeader hdr;
\* UINT8 _pad3[4096 - 0x1F1 - sizeof(LinuxSetupHeader)]
LinuxBootParamsFields ==
    << Field("screen_info", 64),
       Field("_pad1", 448 - 64),
       Field("e820_entries", 1),
       Field("_pad2", 497 - 489),
       Field("hdr", SizeOf(LinuxSetupHeaderFields)),
       Field("_pad3", 4096 - 497 - SizeOf(LinuxSetupHeaderFields)) >>

\* offset of a setup-header member inside the zero page
OffsetOfHdr(name) ==
    OffsetOf(LinuxBootParamsFields, "hdr")
        + OffsetOf(LinuxSetupHeaderFields, name)

\* CopyMem((UINT8 *)bp + 0x2D0, e820, e820_count * sizeof(E820Entry))
E820_TABLE_OFFSET == 720
\* sizeof(E820Entry): UINT64 addr, UINT64 size, UINT32 type, packed
E820_ENTRY_SIZE == 20

\* the bytes of the zero page the E820 copy writes: [first, last + 1)
E820CopyEnd(count) == E820_TABLE_OFFSET + count * E820_ENTRY_SIZE

\* C3: the zero page the loader builds is exactly 4096 bytes, e820_entries
\* is at byte 0x1E8, the setup header starts at byte 0x1F1 (type_of_loader
\* at 0x210, cmd_line_ptr at 0x228), and the E820 table copied to 0x2D0,
\* at most 128 entries of 20 bytes, ends inside the 4096 bytes and starts
\* after the setup header.
C3_ZeroPageLayout ==
    bp.allocated =>
        /\ SizeOf(LinuxBootParamsFields) = 4096
        /\ OffsetOf(LinuxBootParamsFields, "e820_entries") = 488
        /\ OffsetOf(LinuxBootParamsFields, "hdr") = 497
        /\ OffsetOfHdr("type_of_loader") = 528
        /\ OffsetOfHdr("cmd_line_ptr") = 552
        /\ Len(bp.e820_table) <= E820_MAX
        /\ E820CopyEnd(Len(bp.e820_table)) <= 4096
        /\ E820CopyEnd(E820_MAX) <= 4096
        /\ OffsetOf(LinuxBootParamsFields, "hdr")
               + SizeOf(LinuxSetupHeaderFields) <= E820_TABLE_OFFSET

\* what the declaration gives instead
ZeroPageLayoutAsDeclared ==
    /\ SizeOf(LinuxSetupHeaderFields) = 119
    /\ SizeOf(LinuxBootParamsFields) = 4056
    /\ OffsetOf(LinuxBootParamsFields, "e820_entries") = 448
    /\ OffsetOf(LinuxBootParamsFields, "hdr") = 457
    /\ OffsetOfHdr("type_of_loader") = 488
    /\ OffsetOfHdr("cmd_line_ptr") = 512
    /\ E820CopyEnd(E820_MAX) = 3280

(***************************************************************************)
(* ext4 reader (fs/ext4.c).  A path is a sequence of characters, each a    *)
(* one-character string; a physical block is named by its number, and a    *)
(* buffer is described by the block reads that filled it.                  *)
(***************************************************************************)
EXT4_SUPER_MAGIC == 61267
EXT4_ROOT_INO == 2
EXT4_EXTENT_MAGIC == 62218
EXT4_UNINIT_LEN == 32768
SB_MAX_PATH == 512
COMPONENT_SIZE == 256
GROUP_DESC_SIZE == 32
OLD_INODE_SIZE == 128

\* a CHAR16 above 0x7F
WideChar == "U+00E9"

\* the machine stopped on a divide error
Fault == "fault"

\* util/string.c
sb_str16to8(src, max) ==
    [i \in 1..Min(Len(src), max - 1) |->
        IF src[i] # WideChar THEN src[i] ELSE "?"]

Extent(lblk, len, start) ==
    [ee_block |-> lblk, ee_len |-> len, ee_start |-> start]

Inode(is_dir, extents_fl, magic, depth, size, extents) ==
    [is_dir |-> is_dir, extents_fl |-> extents_fl, eh_magic |-> magic,
     eh_depth |-> depth, size |-> size, extents |-> extents]

DirEntry(ino, name, rec_len) ==
    [inode |-> ino, name |-> name, rec_len |-> rec_len]

\* c->sb of a context mounted without Disk I/O: AllocateZeroPool left it 0
ZeroSuperblock ==
    [s_magic |-> 0, s_log_block_size |-> 0, s_inodes_per_group |-> 0,
     s_rev_level |-> 0, s_inode_size |-> 0]

NoContext ==
    [mounted |-> FALSE, disk_io |-> FALSE, sb |-> ZeroSuperblock,
     block_size |-> 0, inode_size |-> 0, group_desc_size |-> 0]

\* 1024U << n
RECURSIVE Shl1024(_)
Shl1024(n) == IF n = 0 THEN 1024 ELSE 2 * Shl1024(n - 1)

\* the superblock read: io is "ok", "error" (the device read fails) or
\* "nomem" (the bounce buffer of the Block I/O fallback is not allocated)
ext4_probe(v, disk_io, io) ==
    IF ~disk_io /\ io = "nomem" THEN EFI_OUT_OF_RESOURCES
    ELSE IF io = "error" THEN EFI_DEVICE_ERROR
    ELSE IF v.sb.s_magic = EXT4_SUPER_MAGIC THEN EFI_SUCCESS
    ELSE EFI_NOT_FOUND

ext4_mount(v, disk_io, io, alloc_ok) ==
    LET s  == ext4_probe(v, disk_io, io)
        sb == IF disk_io THEN v.sb ELSE ZeroSuperblock
    IN IF ~alloc_ok THEN [status |-> EFI_OUT_OF_RESOURCES, ctx |-> NoContext]
       ELSE IF EFI_ERROR(s) THEN [status |-> s, ctx |-> NoContext]
       ELSE [status |-> EFI_SUCCESS,
             ctx |-> [mounted |-> TRUE, disk_io |-> disk_io, sb |-> sb,
                      block_size |-> Shl1024(sb.s_log_block_size),
                      inode_size |-> IF sb.s_rev_level >= 1
                                     THEN sb.s_inode_size ELSE OLD_INODE_SIZE,
                      group_desc_size |-> GROUP_DESC_SIZE]]

\* the inode stored at (group, index) of the volume's inode tables
InodeAt(v, group, index) ==
    LET ino == group * v.sb.s_inodes_per_group + index + 1
    IN IF ino \in DOMAIN v.inodes THEN v.inodes[ino]
       ELSE Inode(FALSE, FALSE, 0, 0, 0, <<>>)

ext4_read_inode(c, v, ino, io_ok) ==
    IF c.sb.s_inodes_per_group = 0
    THEN [status |-> Fault, inode |-> Inode(FALSE, FALSE, 0, 0, 0, <<>>)]
    ELSE LET group == (ino - 1) \div c.sb.s_inodes_per_group
             index == (ino - 1) % c.sb.s_inodes_per_group
         IN IF ~io_ok
            THEN [status |-> EFI_DEVICE_ERROR,
                  inode  |-> Inode(FALSE, FALSE, 0, 0, 0, <<>>)]
            ELSE [status |-> EFI_SUCCESS, inode |-> InodeAt(v, group, index)]

\* the two loops of ext4_read_file_data: extent i, block b of it, with
\* `remaining` bytes to go; every ext4_read_block stores block_size bytes
\* at dst.  fail_at numbers the block read the device fails (0: none).
RECURSIVE read_extents(_, _, _, _, _, _, _, _)
read_extents(c, inode, file_size, fail_at, i, b, remaining, writes) ==
    IF i > Len(inode.extents) \/ remaining = 0
    THEN [status |-> EFI_SUCCESS, writes |-> writes]
    ELSE LET ext == inode.extents[i]
             len_blocks == IF ext.ee_len > EXT4_UNINIT_LEN
                           THEN ext.ee_len - EXT4_UNINIT_LEN ELSE ext.ee_len
             to_read == Min(remaining, c.block_size)
         IN IF b >= len_blocks
            THEN read_extents(c, inode, file_size, fail_at, i + 1, 0,
                              remaining, writes)
            ELSE IF Len(writes) + 1 = fail_at
            THEN [status |-> EFI_DEVICE_ERROR, writes |-> writes]
            ELSE read_extents(c, inode, file_size, fail_at, i, b + 1,
                              remaining - to_read,
                              Append(writes,
                                     [at  |-> file_size - remaining,
                                      len |-> c.block_size,
                                      blk |-> ext.ee_start + b]))

ext4_read_file_data(c, inode, file_size, fail_at) ==
    IF ~inode.extents_fl THEN [status |-> EFI_UNSUPPORTED, writes |-> <<>>]
    ELSE IF inode.eh_magic # EXT4_EXTENT_MAGIC
    THEN [status |-> EFI_VOLUME_CORRUPTED, writes |-> <<>>]
    ELSE IF inode.eh_depth # 0
    THEN [status |-> EFI_UNSUPPORTED, writes |-> <<>>]
    ELSE read_extents(c, inode, file_size, fail_at, 1, 0, file_size, <<>>)

\* the directory entries in a buffer filled by `writes`, each with the
\* offset it starts at: a block's entries lie back to back from its start
RECURSIVE EntryOffset(_, _)
EntryOffset(ents, j) ==
    IF j = 1 THEN 0 ELSE EntryOffset(ents, j - 1) + ents[j - 1].rec_len

BlockEntries(v, blk) ==
    IF blk \in DOMAIN v.dirents THEN v.dirents[blk] ELSE <<>>

EntriesIn(v, writes) ==
    UNION { { [off |-> writes[k].at + EntryOffset(BlockEntries(v, writes[k].blk), j),
               de  |-> BlockEntries(v, writes[k].blk)[j]] :
              j \in 1..Len(BlockEntries(v, writes[k].blk)) } :
            k \in 1..Len(writes) }

\* `while (p + 8 < end)`: bytes that hold no directory entry read as an
\* entry with rec_len 0
RECURSIVE dir_walk(_, _, _, _)
dir_walk(ents, p, end, name) ==
    IF ~(p + 8 < end) THEN 0
    ELSE LET here == {e \in ents : e.off = p}
         IN IF here = {} THEN 0
            ELSE LET de == (CHOOSE e \in here : TRUE).de
                 IN IF de.rec_len = 0 THEN 0
                    ELSE IF de.inode # 0 /\ de.name = name THEN de.inode
                    ELSE dir_walk(ents, p + de.rec_len, end, name)

\* env: which of the calls the callback makes fail
ext4_dir_lookup(c, v, dir_inode, name, env) ==
    IF ~env.dir_alloc_ok THEN 0
    ELSE LET r == ext4_read_file_data(c, dir_inode, dir_inode.size,
                                      env.dir_fail_at)
         IN IF EFI_ERROR(r.status) THEN 0
            ELSE dir_walk(EntriesIn(v, r.writes), 0, dir_inode.size, name)

\* index of the first "/" at or after p, Len + 1 when there is none; a
\* component stops after COMPONENT_SIZE - 1 characters
RECURSIVE ComponentEnd(_, _, _)
ComponentEnd(apath, p, ci) ==
    IF p > Len(apath) \/ apath[p] = "/" \/ ~(ci + 1 < COMPONENT_SIZE) THEN p
    ELSE ComponentEnd(apath, p + 1, ci + 1)

\* mutation: an empty component is looked up like any other
RECURSIVE resolve_walk_EmptyLookedUp(_, _, _, _, _, _)
resolve_walk_EmptyLookedUp(c, v, apath, p, ino, env) ==
    IF p > Len(apath) THEN ino
    ELSE LET q    == ComponentEnd(apath, p, 0)
             comp == SubSeq(apath, p, q - 1)
             p2   == IF q <= Len(apath) /\ apath[q] = "/" THEN q + 1 ELSE q
             dir  == ext4_read_inode(c, v, ino, env.resolve_io_ok)
         IN IF dir.status = Fault THEN -1
            ELSE IF EFI_ERROR(dir.status) THEN 0
            ELSE LET n == ext4_dir_lookup(c, v, dir.inode, comp, env)
                 IN IF n = 0 THEN 0
                    ELSE resolve_walk_EmptyLookedUp(c, v, apath, p2, n, env)

\* the `while (*p)` loop of ext4_resolve_path; -1 when the machine faults
RECURSIVE resolve_walk(_, _, _, _, _, _)
resolve_walk(c, v, apath, p, ino, env) ==
    IF p > Len(apath) THEN ino
    ELSE LET q    == ComponentEnd(apath, p, 0)
             comp == SubSeq(apath, p, q - 1)
             p2   == IF q <= Len(apath) /\ apath[q] = "/" THEN q + 1 ELSE q
         IN IF comp = <<>> THEN resolve_walk(c, v, apath, p2, ino, env)
            ELSE LET dir == ext4_read_inode(c, v, ino, env.resolve_io_ok)
                 IN IF dir.status = Fault THEN -1
                    ELSE IF EFI_ERROR(dir.status) THEN 0
                    ELSE LET n == ext4_dir_lookup(c, v, dir.inode, comp, env)
                         IN IF n = 0 THEN 0
                            ELSE resolve_walk(c, v, apath, p2, n, env)

ext4_resolve_path(c, v, path, env) ==
    LET a8    == sb_str16to8(path, SB_MAX_PATH)
        apath == [i \in 1..Len(a8) |-> IF a8[i] = "\\" THEN "/" ELSE a8[i]]
        p     == IF Len(apath) > 0 /\ apath[1] = "/" THEN 2 ELSE 1
    IN resolve_walk(c, v, apath, p, EXT4_ROOT_INO, env)

\* *buffer as the caller finds it
BufUntouched == [state |-> "untouched", cap |-> 0, writes |-> <<>>,
                 nul_at |-> -1]
BufNull == [state |-> "null", cap |-> 0, writes |-> <<>>, nul_at |-> -1]

ReadResult(status, buffer, size) ==
    [status |-> status, buffer |-> buffer, size |-> size]

\* size is *size as the caller passed it in
ext4_read_file(c, v, path, size, env) ==
    LET ino == ext4_resolve_path(c, v, path, env)
        ri  == ext4_read_inode(c, v, ino, env.inode_io_ok)
    IN IF ino = -1 THEN ReadResult(Fault, BufUntouched, size)
       ELSE IF ino = 0 THEN ReadResult(EFI_NOT_FOUND, BufUntouched, size)
       ELSE IF ri.status = Fault THEN ReadResult(Fault, BufUntouched, size)
       ELSE IF EFI_ERROR(ri.status)
       THEN ReadResult(ri.status, BufUntouched, size)
       ELSE IF ~env.alloc_ok
       THEN ReadResult(EFI_OUT_OF_RESOURCES, BufNull, ri.inode.size)
       ELSE LET r == ext4_read_file_data(c, ri.inode, ri.inode.size,
                                         env.fail_at)
            IN IF EFI_ERROR(r.status)
               THEN ReadResult(r.status, BufNull, ri.inode.size)
               ELSE ReadResult(EFI_SUCCESS,
                               [state  |-> "allocated",
                                cap    |-> ri.inode.size + 1,
                                writes |-> r.writes,
                                nul_at |-> ri.inode.size],
                               ri.inode.size)

ext4_dir_exists(c, v, path, env) ==
    LET ino == ext4_resolve_path(c, v, path, env)
    IN IF ino = -1 THEN Fault
       ELSE IF ino # 0 THEN EFI_SUCCESS ELSE EFI_NOT_FOUND

(***************************************************************************)
(* What a file holds, and what a buffer holds: one chunk per block, named  *)
(* by the physical block its bytes come from (0: zeros, -1: pool memory    *)
(* nothing was stored in)                                                  *)
(***************************************************************************)
Zeros == 0
Unwritten == -1

LenBlocks(ext) == IF ext.ee_len > EXT4_UNINIT_LEN
                  THEN ext.ee_len - EXT4_UNINIT_LEN ELSE ext.ee_len

NBlocks(size, bs) == (size + bs - 1) \div bs

ChunkLen(size, bs, k) == Min(bs, size - (k - 1) * bs)

\* the physical block behind logical block lblk: ee_block places an extent
\* in the file; a hole and an uninitialized extent read as zeros
FileBlock(inode, lblk) ==
    LET hits == {i \in 1..Len(inode.extents) :
                    /\ inode.extents[i].ee_block <= lblk
                    /\ lblk < inode.extents[i].ee_block
                                + LenBlocks(inode.extents[i])}
    IN IF hits = {} THEN Zeros
       ELSE LET e == inode.extents[CHOOSE i \in hits : TRUE]
            IN IF e.ee_len > EXT4_UNINIT_LEN THEN Zeros
               ELSE e.ee_start + (lblk - e.ee_block)

FileBytes(inode, bs) ==
    [k \in 1..NBlocks(inode.size, bs) |->
        [src |-> FileBlock(inode, k - 1),
         len |-> ChunkLen(inode.size, bs, k)]]

\* bytes [0, size) of a buffer
BufferBytes(buf, size, bs) ==
    [k \in 1..NBlocks(size, bs) |->
        [src |-> IF /\ k <= Len(buf.writes)
                    /\ buf.writes[k].at = (k - 1) * bs
                    /\ buf.writes[k].len >= ChunkLen(size, bs, k)
                 THEN buf.writes[k].blk ELSE Unwritten,
         len |-> ChunkLen(size, bs, k)]]

\* bytes stored past the end of the buffer
RECURSIVE WritesEnd(_, _)
WritesEnd(writes, n) ==
    IF n = 0 THEN 0
    ELSE Max(WritesEnd(writes, n - 1), writes[n].at + writes[n].len)

Overrun(buf) == Max(0, WritesEnd(buf.writes, Len(buf.writes)) - buf.cap)

RECURSIVE SumLenBlocks(_, _)
SumLenBlocks(extents, n) ==
    IF n = 0 THEN 0
    ELSE SumLenBlocks(extents, n - 1) + LenBlocks(extents[n])

(***************************************************************************)
(* ext4 volumes and calls the model draws from                             *)
(***************************************************************************)
\* blocks of the largest file, and of the longest extent
MaxFileBlocks == 2

LogBlockSizes == {0, 2}

SubjectSizes(bs) == {0, 1, bs - 1, bs, bs + 1, MaxFileBlocks * bs}

ExtentLists ==
    { <<>>,
      <<Extent(0, 1, 20)>>,
      <<Extent(0, MaxFileBlocks, 20)>>,
      <<Extent(0, 1, 20), Extent(1, MaxFileBlocks, 30)>>,
      <<Extent(0, 1, 20), Extent(2, MaxFileBlocks, 30)>>,
      <<Extent(0, EXT4_UNINIT_LEN + MaxFileBlocks, 20)>> }

SubjectInodes(bs) ==
    { Inode(FALSE, fl, magic, depth, size, extents) :
        fl \in BOOLEAN, magic \in {EXT4_EXTENT_MAGIC, 0}, depth \in {0, 1},
        size \in SubjectSizes(bs), extents \in ExtentLists }

DirInode(bs, blk) ==
    Inode(TRUE, TRUE, EXT4_EXTENT_MAGIC, 0, bs, <<Extent(0, 1, blk)>>)

\* root (inode 2) holds directory "b" (11) and file "f" (13); "b" holds the
\* subject file "v" (12).  The one block of "f" happens to hold bytes that
\* read as a directory entry.
StdVolume(magic, log_bs, subject) ==
    LET bs == Shl1024(log_bs)
    IN [sb |-> [s_magic |-> magic, s_log_block_size |-> log_bs,
                s_inodes_per_group |-> 8, s_rev_level |-> 1,
                s_inode_size |-> 256],
        inodes |-> (2 :> DirInode(bs, 10)) @@ (11 :> DirInode(bs, 11))
                   @@ (12 :> subject)
                   @@ (13 :> Inode(FALSE, TRUE, EXT4_EXTENT_MAGIC, 0, bs,
                                   <<Extent(0, 1, 13)>>)),
        dirents |-> (10 :> << DirEntry(2, <<".">>, 12),
                              DirEntry(2, <<".", ".">>, 12),
                              DirEntry(11, <<"b">>, 12),
                              DirEntry(13, <<"f">>, bs - 36) >>)
                    @@ (11 :> << DirEntry(11, <<".">>, 12),
                                 DirEntry(2, <<".", ".">>, 12),
                                 DirEntry(12, <<"v">>, bs - 24) >>)
                    @@ (13 :> << DirEntry(12, <<"v">>, bs) >>)]

PlainFile(bs) ==
    Inode(FALSE, TRUE, EXT4_EXTENT_MAGIC, 0, bs, <<Extent(0, 1, 20)>>)

\* a device that holds no ext4 file system
NotExt4Volume == StdVolume(0, 0, PlainFile(1024))

Volumes ==
    UNION { { StdVolume(EXT4_SUPER_MAGIC, l, i) :
                i \in SubjectInodes(Shl1024(l)) } : l \in LogBlockSizes }
        \cup {NotExt4Volume}

SubjectPaths ==
    { <<"\\", "b", "\\", "v">>, <<"/", "b", "/", "v">>, <<"b", "\\", "v">> }

Paths ==
    SubjectPaths \cup
    { <<"\\", "b", "\\", "\\", "v">>, <<"\\", "b", "\\", "v", "\\">>,
      <<"\\", "x">>, <<"\\">>, <<>>, <<"\\", "f", "\\", "v">>,
      <<"\\", WideChar>> }

AllOk == [resolve_io_ok |-> TRUE, dir_alloc_ok |-> TRUE, dir_fail_at |-> 0,
          inode_io_ok |-> TRUE, alloc_ok |-> TRUE, fail_at |-> 0]

Envs == { AllOk,
          [AllOk EXCEPT !.resolve_io_ok = FALSE],
          [AllOk EXCEPT !.dir_alloc_ok = FALSE],
          [AllOk EXCEPT !.dir_fail_at = 1],
          [AllOk EXCEPT !.inode_io_ok = FALSE],
          [AllOk EXCEPT !.alloc_ok = FALSE],
          [AllOk EXCEPT !.fail_at = 1],
          [AllOk EXCEPT !.fail_at = MaxFileBlocks] }

\* every path with nothing failing, and every failure on one path
Ext4Inputs ==
    {<<path, AllOk>> : path \in Paths}
        \cup {<<(<<"\\", "b", "\\", "v">>), env>> : env \in Envs}

Ext4Call(op, path, env, res) ==
    [op |-> op, path |-> path, env |-> env, res |-> res]

NoExt4Call == Ext4Call("none", <<>>, AllOk, ReadResult(EFI_SUCCESS,
                                                       BufUntouched, 0))

IdleExt4 ==
    /\ vol = NotExt4Volume
    /\ e4ctx = NoContext
    /\ e4 = NoExt4Call

InitExt4 ==
    /\ vol \in Volumes
    /\ e4ctx = NoContext
    /\ e4 = NoExt4Call

\* sb_vfs_ext4.mount
Ext4Mount ==
    /\ ~e4ctx.mounted
    /\ e4.op = "none"
    /\ \E disk_io \in BOOLEAN, io \in {"ok", "error", "nomem"},
          alloc_ok \in BOOLEAN :
         LET r == ext4_mount(vol, disk_io, io, alloc_ok)
         IN /\ e4ctx' = r.ctx
            /\ e4' = Ext4Call("mount", <<>>, AllOk,
                              ReadResult(r.status, BufUntouched, 0))
    /\ UNCHANGED vol
    /\ UNCHANGED othersOfExt4

\* sb_vfs_ext4.read_file
Ext4ReadFile ==
    /\ e4ctx.mounted
    /\ e4.op = "none"
    /\ \E in \in Ext4Inputs :
         e4' = Ext4Call("read_file", in[1], in[2],
                        ext4_read_file(e4ctx, vol, in[1], 0, in[2]))
    /\ UNCHANGED <<vol, e4ctx>>
    /\ UNCHANGED othersOfExt4

\* sb_vfs_ext4.dir_exists
Ext4DirExists ==
    /\ e4ctx.mounted
    /\ e4.op = "none"
    /\ \E in \in Ext4Inputs :
         e4' = Ext4Call("dir_exists", in[1], in[2],
                        ReadResult(ext4_dir_exists(e4ctx, vol, in[1], in[2]),
                                   BufUntouched, 0))
    /\ UNCHANGED <<vol, e4ctx>>
    /\ UNCHANGED othersOfExt4

\* sb_vfs_ext4.unmount
Ext4Unmount ==
    /\ e4ctx.mounted
    /\ e4.op = "none"
    /\ e4ctx' = NoContext
    /\ e4' = Ext4Call("unmount", <<>>, AllOk,
                      ReadResult(EFI_SUCCESS, BufUntouched, 0))
    /\ UNCHANGED vol
    /\ UNCHANGED othersOfExt4

\* the callback has returned and its caller has taken what it handed back;
\* a divide error leaves nothing to return to
Ext4Return ==
    /\ e4.op # "none"
    /\ e4.res.status # Fault
    /\ e4' = NoExt4Call
    /\ UNCHANGED <<vol, e4ctx>>
    /\ UNCHANGED othersOfExt4

NextExt4 ==
    \/ Ext4Mount
    \/ Ext4ReadFile
    \/ Ext4DirExists
    \/ Ext4Unmount
    \/ Ext4Return

(***************************************************************************)
(* Properties of the ext4 read_file callback                               *)
(***************************************************************************)
\* the file a read_file call with nothing failing was made on: inode 12
SubjectRead ==
    /\ e4.op = "read_file"
    /\ e4.path \in SubjectPaths
    /\ e4.env = AllOk
    /\ e4ctx.disk_io

\* EXTENTS flag, depth 0, extents that cover ceil(size / block_size) blocks
Covered(inode, bs) ==
    /\ inode.extents_fl
    /\ inode.eh_depth = 0
    /\ SumLenBlocks(inode.extents, Len(inode.extents))
           >= NBlocks(inode.size, bs)

\* C5: a file with the EXTENTS flag, an extent header of depth 0 and extents
\* covering at least ceil(size / block_size) blocks is read back as exactly
\* `size` bytes of its data; for every other file read_file returns
\* Unsupported and hands the caller no buffer.  (Files whose extent header
\* carries the extent magic; nothing but the file's shape is in the way.)
C5_ReadFileContract ==
    (SubjectRead /\ vol.inodes[12].eh_magic = EXT4_EXTENT_MAGIC) =>
        IF Covered(vol.inodes[12], e4ctx.block_size)
        THEN /\ e4.res.status = EFI_SUCCESS
             /\ e4.res.buffer.state = "allocated"
             /\ e4.res.size = vol.inodes[12].size
             /\ BufferBytes(e4.res.buffer, e4.res.size, e4ctx.block_size)
                    = FileBytes(vol.inodes[12], e4ctx.block_size)
        ELSE /\ e4.res.status = EFI_UNSUPPORTED
             /\ e4.res.buffer.state # "allocated"

\* read_file returned success with part of the buffer never stored into
ShortExtentsReadAsSuccess ==
    /\ SubjectRead
    /\ e4.res.status = EFI_SUCCESS
    /\ \E k \in 1..NBlocks(e4.res.size, e4ctx.block_size) :
         BufferBytes(e4.res.buffer, e4.res.size, e4ctx.block_size)[k].src
             = Unwritten

\* what does hold: extents laid out from logical block 0 without a gap,
\* none of them uninitialized, that cover the size are read back exactly
ContiguousFromZero(inode) ==
    \A i \in 1..Len(inode.extents) :
        /\ inode.extents[i].ee_len <= EXT4_UNINIT_LEN
        /\ inode.extents[i].ee_block = SumLenBlocks(inode.extents, i - 1)

ContiguousFilesReadBack ==
    (/\ SubjectRead
     /\ vol.inodes[12].eh_magic = EXT4_EXTENT_MAGIC
     /\ Covered(vol.inodes[12], e4ctx.block_size)
     /\ ContiguousFromZero(vol.inodes[12])) =>
        /\ e4.res.status = EFI_SUCCESS
        /\ e4.res.size = vol.inodes[12].size
        /\ BufferBytes(e4.res.buffer, e4.res.size, e4ctx.block_size)
               = FileBytes(vol.inodes[12], e4ctx.block_size)

(***************************************************************************)
(* Device handles as the firmware presents them.  Handle d carries the     *)
(* protocols and the on-disk format its kind names.                        *)
(***************************************************************************)
\* device handles in the system
NumHandles == 115

DeviceKinds ==
    << "native", "ext4", "btrfs", "native", "ext4_short", "native",
       "no_block_io", "ext4_block_io", "native", "xfs", "ext4_no_extents",
       "ntfs", "native", "ext4_bad_media", "raw" >>

KindOf(d) == DeviceKinds[((d - 1) % Len(DeviceKinds)) + 1]

IsExt4Kind(k) == k \in {"ext4", "ext4_short", "ext4_block_io",
                        "ext4_no_extents", "ext4_bad_media"}

\* EFI_SIMPLE_FILE_SYSTEM_PROTOCOL, EFI_BLOCK_IO_PROTOCOL and
\* EFI_DISK_IO_PROTOCOL on the handle
HasSimpleFileSystem(d) == KindOf(d) = "native"
HasBlockIo(d) == KindOf(d) # "no_block_io"
HasDiskIo(d) == HasBlockIo(d) /\ KindOf(d) # "ext4_block_io"

\* whether the device answers reads
MediaIo(d) == IF KindOf(d) = "ext4_bad_media" THEN "error" ELSE "ok"

\* the file "\b\v" of an ext4 device: whole, with extents shorter than its
\* size, or without the EXTENTS flag
SubjectOf(d) ==
    IF KindOf(d) = "ext4_short"
    THEN Inode(FALSE, TRUE, EXT4_EXTENT_MAGIC, 0, 2 * 1024,
               <<Extent(0, 1, 20)>>)
    ELSE IF KindOf(d) = "ext4_no_extents"
    THEN Inode(FALSE, FALSE, 0, 0, 1024, <<>>)
    ELSE PlainFile(1024)

VolumeOf(d) ==
    IF IsExt4Kind(KindOf(d))
    THEN StdVolume(EXT4_SUPER_MAGIC, 0, SubjectOf(d))
    ELSE NotExt4Volume

\* bytes of the file "\b\v" on a native volume, and the name its bytes go by
NativeFileSize == 700
NativeFile(d) == 1000 + d

(***************************************************************************)
(* VFS dispatcher (fs/vfs.c)                                               *)
(***************************************************************************)
VFS_MAX_MOUNTS == 64

\* mutation: the extent-tree driver is asked last
builtin_drivers_Ext4Last == <<"btrfs", "xfs", "ntfs", "ext4">>

builtin_drivers == <<"ext4", "btrfs", "xfs", "ntfs">>

\* a VfsMount; driver "NULL" and NoContext are the zeroes SetMem leaves
VfsMount(device, is_native, driver, fs_context) ==
    [device |-> device, is_native |-> is_native, driver |-> driver,
     fs_context |-> fs_context]

ZeroMount == VfsMount(0, FALSE, "NULL", NoContext)

Table(m, n) == [mounts |-> m, mount_count |-> n]

EmptyTable == Table([i \in 1..VFS_MAX_MOUNTS |-> ZeroMount], 0)

\* mutation: the table is never searched
find_mount_never(t, device) == 0

\* index of the first mount of `device`, 0 for NULL
find_mount(t, device) ==
    LET hits == {i \in 1..t.mount_count : t.mounts[i].device = device}
    IN IF hits = {} THEN 0
       ELSE CHOOSE i \in hits : \A j \in hits : i <= j

\* mutation: the table is never taken to be full
TableFull_never(t) == FALSE

\* `if (mount_count >= VFS_MAX_MOUNTS)`
TableFull(t) == t.mount_count >= VFS_MAX_MOUNTS

\* probe and mount callbacks of a built-in driver on a device
DriverProbe(drv, d) ==
    IF drv = "ext4" THEN ext4_probe(VolumeOf(d), HasDiskIo(d), MediaIo(d))
    ELSE IF MediaIo(d) # "ok" THEN EFI_DEVICE_ERROR
    ELSE IF KindOf(d) = drv THEN EFI_SUCCESS
    ELSE EFI_NOT_FOUND

DriverMount(drv, d) ==
    IF drv = "ext4"
    THEN ext4_mount(VolumeOf(d), HasDiskIo(d), MediaIo(d), TRUE)
    ELSE [status |-> EFI_UNSUPPORTED, ctx |-> NoContext]

\* what one pass of the driver loop called: the driver's probe, and its
\* mount when the probe succeeded ("none": mount was not called)
Tried(drv, probe, mount) == [drv |-> drv, probe |-> probe, mount |-> mount]

\* one pass of the loop over builtin_drivers: p is what the driver's probe
\* returned, r what its mount returns, rest the passes that follow
driver_pass(t, slot, d, drv, p, r, rest) ==
    IF EFI_ERROR(p)
    THEN [rest EXCEPT !.tried = <<Tried(drv, p, "none")>> \o @]
    ELSE IF ~EFI_ERROR(r.status)
    THEN [status |-> EFI_SUCCESS,
          t |-> Table([t.mounts EXCEPT
                          ![slot] = VfsMount(d, FALSE, drv, r.ctx)],
                      t.mount_count + 1),
          tried |-> <<Tried(drv, p, r.status)>>]
    ELSE [rest EXCEPT !.tried = <<Tried(drv, p, r.status)>> \o @]

\* the loop over builtin_drivers from driver i on; m is &mounts[mount_count]
RECURSIVE try_drivers(_, _, _, _)
try_drivers(t, slot, d, i) ==
    IF i > Len(builtin_drivers)
    THEN [status |-> EFI_UNSUPPORTED, t |-> t, tried |-> <<>>]
    ELSE driver_pass(t, slot, d, builtin_drivers[i],
                     DriverProbe(builtin_drivers[i], d),
                     DriverMount(builtin_drivers[i], d),
                     try_drivers(t, slot, d, i + 1))

sb_vfs_open_device(t, d) ==
    IF find_mount(t, d) # 0
    THEN [status |-> EFI_SUCCESS, t |-> t, tried |-> <<>>]
    ELSE IF TableFull(t)
    THEN [status |-> EFI_OUT_OF_RESOURCES, t |-> t, tried |-> <<>>]
    ELSE LET slot == t.mount_count + 1
             t0   == Table([t.mounts EXCEPT
                               ![slot] = VfsMount(d, FALSE, "NULL", NoContext)],
                           t.mount_count)
         IN IF HasSimpleFileSystem(d)
            THEN [status |-> EFI_SUCCESS,
                  t |-> Table([t.mounts EXCEPT
                                  ![slot] = VfsMount(d, TRUE, "NULL",
                                                     NoContext)],
                              t.mount_count + 1),
                  tried |-> <<>>]
            ELSE IF ~HasBlockIo(d)
            THEN [status |-> EFI_UNSUPPORTED, t |-> t0, tried |-> <<>>]
            ELSE try_drivers(t0, slot, d, 1)

\* the firmware's file protocol on a native volume: how far the read gets
NativeOutcomes(path) ==
    IF path \in SubjectPaths
    THEN {"no_volume", "no_info", "nomem", "ok", "short", "read_error"}
    ELSE {"no_volume", "not_found"}

\* the native branch of sb_vfs_read_file; size is *size as passed in
NativeRead(d, size, outcome) ==
    LET alloc(n, got) == [state  |-> "allocated", cap |-> NativeFileSize + 1,
                          writes |-> IF got = 0 THEN <<>>
                                     ELSE <<[at |-> 0, len |-> got,
                                             blk |-> NativeFile(d)]>>,
                          nul_at |-> n]
    IN CASE outcome = "no_volume" ->
              ReadResult(EFI_DEVICE_ERROR, BufUntouched, size)
         [] outcome = "not_found" ->
              ReadResult(EFI_NOT_FOUND, BufUntouched, size)
         [] outcome = "no_info" ->
              ReadResult(EFI_BUFFER_TOO_SMALL, BufUntouched, size)
         [] outcome = "nomem" ->
              ReadResult(EFI_OUT_OF_RESOURCES, BufNull, NativeFileSize)
         [] outcome = "ok" ->
              ReadResult(EFI_SUCCESS, alloc(NativeFileSize, NativeFileSize),
                         NativeFileSize)
         [] outcome = "short" ->
              ReadResult(EFI_SUCCESS,
                         alloc(NativeFileSize \div 2, NativeFileSize \div 2),
                         NativeFileSize \div 2)
         [] OTHER ->
              ReadResult(EFI_DEVICE_ERROR, alloc(NativeFileSize, 0),
                         NativeFileSize)

\* the part of sb_vfs_read_file after the mount was found
ReadMounted(m, d, path, size, env) ==
    IF m.is_native THEN NativeRead(d, size, env.native)
    ELSE IF m.driver = "ext4"
    THEN ext4_read_file(m.fs_context, VolumeOf(d), path, size, env.ext4)
    ELSE ReadResult(EFI_UNSUPPORTED, BufUntouched, size)

sb_vfs_read_file(t, d, path, size, env) ==
    LET o  == IF find_mount(t, d) = 0 THEN sb_vfs_open_device(t, d)
              ELSE [status |-> EFI_SUCCESS, t |-> t]
        mi == find_mount(o.t, d)
    IN IF EFI_ERROR(o.status)
       THEN [res |-> ReadResult(o.status, BufUntouched, size), t |-> o.t]
       ELSE IF mi = 0
       THEN [res |-> ReadResult(EFI_NOT_FOUND, BufUntouched, size), t |-> o.t]
       ELSE [res |-> ReadMounted(o.t.mounts[mi], d, path, size, env),
             t   |-> o.t]

\* TRUE, FALSE, or Fault when the built-in read stops the machine
sb_vfs_file_exists(t, d, path, env) ==
    LET t1 == IF find_mount(t, d) = 0 THEN sb_vfs_open_device(t, d).t ELSE t
        mi == find_mount(t1, d)
    IN IF mi = 0 THEN [exists |-> "FALSE", t |-> t1]
       ELSE IF t1.mounts[mi].is_native
       THEN [exists |-> IF env.native \in {"no_volume", "not_found"}
                        THEN "FALSE" ELSE "TRUE",
             t |-> t1]
       ELSE LET r == sb_vfs_read_file(t1, d, path, 0, env)
            IN [exists |-> IF r.res.status = Fault THEN Fault
                           ELSE IF EFI_ERROR(r.res.status) THEN "FALSE"
                           ELSE "TRUE",
                t |-> r.t]

(***************************************************************************)
(* Calls the model makes on the VFS                                        *)
(***************************************************************************)
MissingPath == <<"\\", "x">>

VfsPaths == {<<"\\", "b", "\\", "v">>, MissingPath}

VfsEnvs(d, path) ==
    IF HasSimpleFileSystem(d)
    THEN {[native |-> o, ext4 |-> AllOk] : o \in NativeOutcomes(path)}
    ELSE {[native |-> "ok", ext4 |-> e] :
             e \in {AllOk, [AllOk EXCEPT !.alloc_ok = FALSE],
                    [AllOk EXCEPT !.fail_at = 1]}}

\* handles the next call may name: the next one not met yet, and the
\* Window - 1 met last
Window == 6

RecentDevices ==
    {d \in 1..NumHandles : d <= seen + 1 /\ d + Window > seen + 1}

VfsCall(op, d, path, env, before, status, res, exists) ==
    [op |-> op, device |-> d, path |-> path, env |-> env, before |-> before,
     status |-> status, res |-> res, exists |-> exists, tried |-> <<>>]

NoVfsCall ==
    VfsCall("none", 0, <<>>, [native |-> "ok", ext4 |-> AllOk], EmptyTable,
            EFI_SUCCESS, ReadResult(EFI_SUCCESS, BufUntouched, 0), "FALSE")

\* sb_vfs_init has run
InitVfs ==
    /\ mounts = EmptyTable.mounts
    /\ mount_count = 0
    /\ seen = 0
    /\ vfsCall = NoVfsCall

Met(d) == IF d > seen THEN d ELSE seen

VfsOpenDevice ==
    /\ vfsCall.op = "none"
    /\ \E d \in RecentDevices :
       \E t \in {Table(mounts, mount_count)} :
       \E r \in {sb_vfs_open_device(t, d)} :
            /\ mounts' = r.t.mounts
            /\ mount_count' = r.t.mount_count
            /\ seen' = Met(d)
            /\ vfsCall' = [VfsCall("open", d, <<>>,
                                   [native |-> "ok", ext4 |-> AllOk], t,
                                   r.status,
                                   ReadResult(r.status, BufUntouched, 0),
                                   "FALSE")
                              EXCEPT !.tried = r.tried]
    /\ UNCHANGED othersOfVfs

VfsReadFile ==
    /\ vfsCall.op = "none"
    /\ \E d \in RecentDevices, path \in VfsPaths :
         \E env \in VfsEnvs(d, path) :
           LET t == Table(mounts, mount_count)
               r == sb_vfs_read_file(t, d, path, 0, env)
           IN /\ mounts' = r.t.mounts
              /\ mount_count' = r.t.mount_count
              /\ seen' = Met(d)
              /\ vfsCall' = VfsCall("read", d, path, env, t, r.res.status,
                                    r.res, "FALSE")
    /\ UNCHANGED othersOfVfs

VfsFileExists ==
    /\ vfsCall.op = "none"
    /\ \E d \in RecentDevices, path \in VfsPaths :
         \E env \in VfsEnvs(d, path) :
           LET t == Table(mounts, mount_count)
               r == sb_vfs_file_exists(t, d, path, env)
           IN /\ mounts' = r.t.mounts
              /\ mount_count' = r.t.mount_count
              /\ seen' = Met(d)
              /\ vfsCall' = VfsCall("exists", d, path, env, t,
                                    IF r.exists = Fault THEN Fault
                                    ELSE EFI_SUCCESS,
                                    ReadResult(EFI_SUCCESS, BufUntouched, 0),
                                    r.exists)
    /\ UNCHANGED othersOfVfs

\* the call has returned and the caller is done with what it handed back;
\* a divide error leaves nothing to return to
VfsReturn ==
    /\ vfsCall.op # "none"
    /\ vfsCall.status # Fault
    /\ vfsCall' = NoVfsCall
    /\ UNCHANGED <<mounts, mount_count, seen>>
    /\ UNCHANGED othersOfVfs

NextVfs ==
    \/ VfsOpenDevice
    \/ VfsReadFile
    \/ VfsFileExists
    \/ VfsReturn

(***************************************************************************)
(* Properties of the VFS dispatcher                                        *)
(***************************************************************************)
\* the entries of a table: slots below mount_count
Entries(t) == [i \in 1..t.mount_count |-> t.mounts[i]]

MountedIn(t, d) == \E i \in 1..t.mount_count : t.mounts[i].device = d

\* what the file "\b\v" of a device holds
TruthOf(d) ==
    IF HasSimpleFileSystem(d)
    THEN [unit |-> NativeFileSize,
          bytes |-> <<[src |-> NativeFile(d), len |-> NativeFileSize]>>]
    ELSE [unit |-> 1024, bytes |-> FileBytes(SubjectOf(d), 1024)]

\* the first n bytes of a file
RECURSIVE FirstBytes(_, _)
FirstBytes(chunks, n) ==
    IF n <= 0 \/ chunks = <<>> THEN <<>>
    ELSE <<[src |-> Head(chunks).src, len |-> Min(n, Head(chunks).len)]>>
         \o FirstBytes(Tail(chunks), n - Head(chunks).len)

\* C6: every sb_vfs_read_file call that returns success, on a native mount
\* and on an ext4 mount alike, hands back a buffer of size + 1 bytes or
\* more whose first `size` bytes are the file's bytes and whose byte at
\* index `size` is NUL.
C6_SuccessfulReadIsWholeFile ==
    (vfsCall.op = "read" /\ vfsCall.status = EFI_SUCCESS) =>
        /\ vfsCall.res.buffer.state = "allocated"
        /\ vfsCall.res.buffer.cap >= vfsCall.res.size + 1
        /\ vfsCall.res.buffer.nul_at = vfsCall.res.size
        /\ BufferBytes(vfsCall.res.buffer, vfsCall.res.size,
                       TruthOf(vfsCall.device).unit)
               = FirstBytes(TruthOf(vfsCall.device).bytes, vfsCall.res.size)

\* the same on native mounts alone, where it holds
NativeReadIsWholeFile ==
    HasSimpleFileSystem(vfsCall.device) => C6_SuccessfulReadIsWholeFile

\* C7: the mount table holds at most one entry per device handle, and
\* sb_vfs_open_device on a device that is already mounted returns success
\* and leaves the table as it was: the count and every entry's device,
\* kind, driver and state.
C7_MountIdempotent ==
    /\ \A i, j \in 1..Min(mount_count, VFS_MAX_MOUNTS) :
           mounts[i].device = mounts[j].device => i = j
    /\ (vfsCall.op = "open" /\ MountedIn(vfsCall.before, vfsCall.device)) =>
           /\ vfsCall.status = EFI_SUCCESS
           /\ Table(mounts, mount_count) = vfsCall.before

\* an ext4 device opened a second time, after it was mounted
C7_Witness ==
    /\ vfsCall.op = "open"
    /\ MountedIn(vfsCall.before, vfsCall.device)
    /\ KindOf(vfsCall.device) = "ext4"
    /\ mount_count > 1

\* C8: the mount table never holds more than 64 entries; opening a device
\* that is not mounted when 64 mounts exist returns out-of-resources and
\* leaves the table as it was; opening a mounted device still returns
\* success then.
C8_MountTableBounded ==
    /\ mount_count <= VFS_MAX_MOUNTS
    /\ (vfsCall.op = "open" /\ vfsCall.before.mount_count = VFS_MAX_MOUNTS) =>
           IF MountedIn(vfsCall.before, vfsCall.device)
           THEN /\ vfsCall.status = EFI_SUCCESS
                /\ Table(mounts, mount_count) = vfsCall.before
           ELSE /\ vfsCall.status = EFI_OUT_OF_RESOURCES
                /\ Table(mounts, mount_count) = vfsCall.before

\* a device that could be mounted is refused because the table is full
C8_Witness ==
    /\ vfsCall.op = "open"
    /\ vfsCall.before.mount_count = VFS_MAX_MOUNTS
    /\ ~MountedIn(vfsCall.before, vfsCall.device)
    /\ KindOf(vfsCall.device) \in {"native", "ext4"}
    /\ vfsCall.status = EFI_OUT_OF_RESOURCES

\* a mounted device is opened again while the table is full
MountedOpenWhenFull ==
    /\ vfsCall.op = "open"
    /\ vfsCall.before.mount_count = VFS_MAX_MOUNTS
    /\ MountedIn(vfsCall.before, vfsCall.device)

(***************************************************************************)
(* Boot targets and config parsers (superboot.h, config/)                  *)
(***************************************************************************)
SB_MAX_TARGETS == 64

CONFIG_TYPE_UNKNOWN == 0
CONFIG_TYPE_GRUB == 1
CONFIG_TYPE_SYSTEMD_BOOT == 2
CONFIG_TYPE_LIMINE == 3

\* What the lines of a section or entry file leave in the BootTarget:
\*   "entry"       a kernel path (kernel_path:, linux)
\*   "chain"       the chainload flag with an EFI path (image_path:, efi)
\*   "chain_bare"  the chainload flag without an EFI path
\*                 (`protocol: chainload` alone, `efi` without a value)
\*   "empty"       none of these
KernelPathOf(item) == IF item = "entry" THEN "\\vmlinuz" ELSE ""

EfiPathOf(item) == IF item = "chain" THEN "\\EFI\\x.efi" ELSE ""

IsChainload(item) == item \in {"chain", "chain_bare"}

\* mutation: every entry is given index 0
BootTarget_IndexZero(config_type, device_handle, config_path, index, title, item) ==
    [config_type |-> config_type, device_handle |-> device_handle,
     config_path |-> config_path, index |-> 0, title |-> title,
     kernel_path |-> KernelPathOf(item), efi_path |-> EfiPathOf(item),
     is_chainload |-> IsChainload(item),
     bootable |-> KernelPathOf(item) # "" \/ IsChainload(item)]

\* the fields of a BootTarget the scan is concerned with.  title stands for
\* the text that tells the entries of one file apart: the ordinal of the
\* section or entry file it came from.  bootable is
\* `kernel_path[0] || is_chainload`.
BootTarget(config_type, device_handle, config_path, index, title, item) ==
    [config_type |-> config_type, device_handle |-> device_handle,
     config_path |-> config_path, index |-> index, title |-> title,
     kernel_path |-> KernelPathOf(item), efi_path |-> EfiPathOf(item),
     is_chainload |-> IsChainload(item),
     bootable |-> KernelPathOf(item) # "" \/ IsChainload(item)]

\* a BootTarget after SetMem(.., 0)
ZeroTarget == BootTarget(CONFIG_TYPE_UNKNOWN, 0, "", 0, 0, "empty")

grub_paths == << "\\boot\\grub\\grub.cfg", "\\grub\\grub.cfg" >>

sd_boot_paths == << "\\loader\\loader.conf" >>

limine_paths ==
    << "\\limine.cfg", "\\boot\\limine\\limine.cfg", "\\EFI\\BOOT\\limine.cfg" >>

\* the parser registry, in registration order
parsers ==
    << [name |-> "GRUB", type |-> CONFIG_TYPE_GRUB,
        config_paths |-> grub_paths],
       [name |-> "systemd-boot", type |-> CONFIG_TYPE_SYSTEMD_BOOT,
        config_paths |-> sd_boot_paths],
       [name |-> "Limine", type |-> CONFIG_TYPE_LIMINE,
        config_paths |-> limine_paths] >>

\* what a parse call hands back: its status, *count, and the slots of the
\* slice it wrote, in the order it wrote them (at is the index in the slice)
ParseResult(status, found, writes) ==
    [status |-> status, found |-> found, writes |-> writes]

SlotWrite(at, entry) == [at |-> at, entry |-> entry]

\* The loops below carry the running *count and the slots written so far;
\* each step binds the new values (c, w) before the next iteration.
\* the loop of limine_parse over the sections of the file from section k
\* on; a section with a kernel path or the chainload flag is counted.
\* `if (*count >= max) break;` ends it.
RECURSIVE limine_sections(_, _, _, _, _, _, _)
limine_sections(items, k, device, config_path, max, count, writes) ==
    IF k > Len(items) \/ count >= max
    THEN ParseResult(EFI_SUCCESS, count, writes)
    ELSE LET cur == BootTarget(CONFIG_TYPE_LIMINE, device, config_path,
                               count, k, items[k])
         IN CHOOSE r \in
                { limine_sections(items, k + 1, device, config_path, max,
                                  c, w) :
                    c \in {IF cur.bootable THEN count + 1 ELSE count},
                    w \in {Append(writes, SlotWrite(count, cur))} } : TRUE

limine_parse(file, device, config_path, max) ==
    limine_sections(file.items, 1, device, config_path, max, 0, <<>>)

\* the loop of systemd_boot_parse over the directory \loader\entries from
\* record k on: "skip" is a record that is not parsed (a directory, a name
\* without .conf, a file that cannot be opened or read); a file with `linux`
\* or `efi` is counted.  parse_entry_file writes the path of the entry file
\* as config_path.
RECURSIVE sd_entries(_, _, _, _, _, _)
sd_entries(items, k, device, max, count, writes) ==
    IF k > Len(items)
    THEN ParseResult(EFI_SUCCESS, count, writes)
    ELSE IF items[k] = "skip" \/ ~(count < max)
    THEN sd_entries(items, k + 1, device, max, count, writes)
    ELSE LET t == BootTarget(CONFIG_TYPE_SYSTEMD_BOOT, device,
                             "\\loader\\entries\\%s", count, k,
                             items[k])
         IN CHOOSE r \in
                { sd_entries(items, k + 1, device, max, c, w) :
                    c \in {IF t.bootable THEN count + 1 ELSE count},
                    w \in {Append(writes, SlotWrite(count, t))} } : TRUE

\* dir is the directory \loader\entries of the device; without the
\* SimpleFileSystem protocol on the device there is nothing to parse
systemd_boot_parse(dir, device, config_path, max) ==
    IF ~HasSimpleFileSystem(device) \/ ~dir.present
    THEN ParseResult(EFI_SUCCESS, 0, <<>>)
    ELSE sd_entries(dir.items, 1, device, max, 0, <<>>)

\* the GRUB parser by its contract: menuentry blocks become entries of the
\* slice, at most max of them, and a hard failure is reported as an error
\* after the blocks before it were written
RECURSIVE grub_menuentries(_, _, _, _, _, _, _)
grub_menuentries(file, k, device, config_path, max, count, writes) ==
    IF k > Len(file.items) \/ count >= max
    THEN ParseResult(IF file.hard_error THEN EFI_VOLUME_CORRUPTED
                     ELSE EFI_SUCCESS, count, writes)
    ELSE LET t == BootTarget(CONFIG_TYPE_GRUB, device, config_path,
                             count, k, "entry")
         IN CHOOSE r \in
                { grub_menuentries(file, k + 1, device, config_path, max,
                                   c, w) :
                    c \in {count + 1},
                    w \in {Append(writes, SlotWrite(count, t))} } : TRUE

grub_parse(file, device, config_path, max) ==
    grub_menuentries(file, 1, device, config_path, max, 0, <<>>)

(***************************************************************************)
(* What the partitions hold                                                *)
(***************************************************************************)
\* sections of the large section file and of the large entries directory
BigFile == 40
\* menuentry blocks of the large menu script
BigMenu == 30

File(present, items, hard_error) ==
    [present |-> present, items |-> items, hard_error |-> hard_error]

NoFile == File(FALSE, <<>>, FALSE)

Repeat(x, n) == [k \in 1..n |-> x]

\* the config file at a probe path of a device
ConfigOn(d, path) ==
    CASE d = 1 /\ path = grub_paths[1] ->
           File(TRUE, <<"entry", "entry">>, FALSE)
      [] d = 1 /\ path = grub_paths[2] ->
           File(TRUE, <<"entry">>, FALSE)
      [] d \in {1, 2, 6, 9} /\ path = sd_boot_paths[1] ->
           File(TRUE, <<>>, FALSE)
      [] d = 2 /\ path = limine_paths[1] ->
           File(TRUE, <<"entry">>, FALSE)
      [] d = 4 /\ path = grub_paths[2] ->
           File(TRUE, <<"entry">>, TRUE)
      [] d = 4 /\ path = limine_paths[3] ->
           File(TRUE, <<"empty", "entry", "empty">>, FALSE)
      [] d = 5 /\ path = limine_paths[2] ->
           File(TRUE, <<"entry", "chain">>, FALSE)
      [] d = 6 /\ path = limine_paths[1] ->
           File(TRUE, Repeat("entry", BigFile), FALSE)
      [] d = 8 /\ path = limine_paths[1] ->
           File(TRUE, <<"entry">>, FALSE)
      [] d = 9 /\ path = grub_paths[1] ->
           File(TRUE, Repeat("entry", BigMenu), FALSE)
      [] d = 9 /\ path = limine_paths[2] ->
           File(TRUE, <<"entry">>, FALSE)
      [] OTHER -> NoFile

\* the directory \loader\entries of a device
EntriesDir(d) ==
    CASE d = 1 -> File(TRUE, <<"skip", "entry", "empty", "entry">>, FALSE)
      [] d = 2 -> File(TRUE, <<"entry">>, FALSE)
      [] d \in {6, 9} -> File(TRUE, Repeat("entry", BigFile), FALSE)
      [] OTHER -> NoFile

\* Media->LogicalPartition and Media->MediaPresent of the Block I/O
\* protocol on the handle
LogicalPartition(d) == KindOf(d) # "raw"

MediaPresent(d) == d # 12

\* handle buffers LocateHandleBuffer may return
HandleBuffers ==
    { << >>,
      <<15, 4, 3, 1>>,
      <<9, 1>>,
      <<2, 12, 7, 6, 4>>,
      <<8, 1>>,
      <<3, 15>>,
      <<5, 4>> }

\* the path of the VFS model that stands for a probe path of a device: the
\* file that is there, or the one that is not
ModelPath(d, path) ==
    IF ConfigOn(d, path).present THEN <<"\\", "b", "\\", "v">>
    ELSE MissingPath

(***************************************************************************)
(* Scanner (scan/scan.c)                                                   *)
(***************************************************************************)
\* mutation: the parser is handed the start of the list
SliceBase_Zero(count) == 0

\* `&ctx->targets.entries[ctx->targets.count]`: the slot the slice starts at
SliceBase(count) == count

\* `remaining = SB_MAX_TARGETS - ctx->targets.count`
Remaining(count) == SB_MAX_TARGETS - count

\* mutation: the scan reports success whatever it found
ScanResult_AlwaysSuccess(count) == EFI_SUCCESS

\* `return (ctx->targets.count > 0) ? EFI_SUCCESS : EFI_NOT_FOUND;`
ScanResult(count) == IF count > 0 THEN EFI_SUCCESS ELSE EFI_NOT_FOUND

\* parser->parse on the file read from `path` of `device`
parse(parser, device, path, max) ==
    IF parser.type = CONFIG_TYPE_GRUB
    THEN grub_parse(ConfigOn(device, path), device, path, max)
    ELSE IF parser.type = CONFIG_TYPE_SYSTEMD_BOOT
    THEN systemd_boot_parse(EntriesDir(device), device, path, max)
    ELSE limine_parse(ConfigOn(device, path), device, path, max)

\* the slots of entries[] a parse call wrote, given the slot its slice
\* starts at (slots are numbered from 1 here, entries[0] is slot 1)
SlotsWritten(base, writes) ==
    {base + writes[k].at + 1 : k \in 1..Len(writes)}

\* entries[] after the writes; a write past the array does not land in it
ApplyWrites(entries, base, writes) ==
    [s \in 1..SB_MAX_TARGETS |->
        LET ws == {k \in 1..Len(writes) : base + writes[k].at + 1 = s}
        IN IF ws = {} THEN entries[s]
           ELSE writes[CHOOSE k \in ws : \A j \in ws : j <= k].entry]

TargetList(entries, count) == [entries |-> entries, count |-> count]

ScanState(at, i, pp, path, status) ==
    [pc |-> at, i |-> i, pp |-> pp, path |-> path, ret |-> status]

ParseCall(called, lo, max, slots, before, status, found) ==
    [called |-> called, lo |-> lo, max |-> max, slots |-> slots,
     before |-> before, status |-> status, found |-> found]

NoParseCall ==
    ParseCall(FALSE, 0, 0, {}, [s \in 1..SB_MAX_TARGETS |-> ZeroTarget],
              EFI_SUCCESS, 0)

\* sb_init_context has zeroed the context; the scan has not started
InitScan ==
    /\ handles = << >>
    /\ targets = TargetList([s \in 1..SB_MAX_TARGETS |-> ZeroTarget], 0)
    /\ scan = ScanState("start", 0, 0, 0, "none")
    /\ parseCall = NoParseCall
    /\ visited = {}
    /\ swallowed = {}
    /\ probes = {}

\* LocateHandleBuffer(ByProtocol, BlockIo): an error ends the scan with the
\* error's status
ScanStart ==
    /\ scan.pc = "start"
    /\ \/ \E status \in {EFI_NOT_FOUND, EFI_OUT_OF_RESOURCES} :
            /\ scan' = ScanState("done", 0, 0, 0, status)
            /\ UNCHANGED handles
       \/ \E buf \in HandleBuffers :
            /\ handles' = buf
            /\ scan' = ScanState("loop", 1, 0, 0, "none")
    /\ UNCHANGED <<targets, parseCall, visited, swallowed, probes>>
    /\ UNCHANGED <<mounts, mount_count>>
    /\ UNCHANGED othersOfScan

\* the head of `for (i = 0; i < handle_count; i++)` and the filter on the
\* handle; past the last handle the scan returns
ScanFilter ==
    /\ scan.pc = "loop"
    /\ IF scan.i > Len(handles)
       THEN scan' = ScanState("done", scan.i, 0, 0, ScanResult(targets.count))
       ELSE LET d == handles[scan.i]
            IN IF ~HasBlockIo(d) \/ ~LogicalPartition(d) \/ ~MediaPresent(d)
               THEN scan' = [scan EXCEPT !.i = @ + 1]
               ELSE scan' = [scan EXCEPT !.pc = "open"]
    /\ UNCHANGED <<handles, targets, parseCall, visited, swallowed, probes>>
    /\ UNCHANGED <<mounts, mount_count>>
    /\ UNCHANGED othersOfScan

\* scan_partition up to the parser loop: sb_vfs_open_device, and the
\* return of its status when it is an error
ScanOpen ==
    /\ scan.pc = "open"
    /\ \E r \in {sb_vfs_open_device(Table(mounts, mount_count),
                                    handles[scan.i])} :
          /\ mounts' = r.t.mounts
          /\ mount_count' = r.t.mount_count
          /\ visited' = visited \cup {<<scan.i, 0>>}
          /\ IF EFI_ERROR(r.status)
             THEN /\ scan' = [scan EXCEPT !.pc = "returned"]
                  /\ swallowed' = swallowed \cup {"open"}
             ELSE /\ scan' = [scan EXCEPT !.pc = "probe", !.pp = 1,
                                          !.path = 1]
                  /\ UNCHANGED swallowed
    /\ UNCHANGED <<handles, targets, parseCall, probes>>
    /\ UNCHANGED othersOfScan

\* mutation: no `break` after the parse, the next config path is probed
NextParser_NoBreak(sc) ==
    IF sc.path < Len(parsers[sc.pp].config_paths)
    THEN [sc EXCEPT !.path = @ + 1]
    ELSE IF sc.pp < Len(parsers)
    THEN [sc EXCEPT !.pp = @ + 1, !.path = 1]
    ELSE [sc EXCEPT !.pc = "returned", !.pp = 0, !.path = 0]

\* where the parser loop goes on: the next parser, or the return of
\* scan_partition after the last one
NextParser(sc) ==
    IF sc.pp < Len(parsers)
    THEN [sc EXCEPT !.pp = @ + 1, !.path = 1]
    ELSE [sc EXCEPT !.pc = "returned", !.pp = 0, !.path = 0]

\* `continue` in the loop over the parser's config paths
NextPath(sc) ==
    IF sc.path < Len(parsers[sc.pp].config_paths)
    THEN [sc EXCEPT !.path = @ + 1]
    ELSE NextParser(sc)

\* one pass of the loop over config paths at position sc: whether the file
\* was found to exist, was read, and was handed to parser->parse
Probe(sc, exists, read, parsed) ==
    [i |-> sc.i, pp |-> sc.pp, path |-> sc.path, exists |-> exists,
     read |-> read, parsed |-> parsed]

\* one pass of the loop over config paths, given what its three calls
\* returned: ex from sb_vfs_file_exists, rd from sb_vfs_read_file and r from
\* parser->parse.  The read is looked at only when the file exists, the
\* parse only when the read succeeded and the list is not full.
probe_path(sc, tl, pcall, met, mp, ex, rd, r) ==
    LET remaining == Remaining(tl.count)
        base      == SliceBase(tl.count)
        same      == [scan |-> sc, targets |-> tl, parseCall |-> pcall,
                      swallowed |-> met, t |-> ex.t,
                      probe |-> Probe(sc, ex.exists = "TRUE", FALSE, FALSE)]
    IN IF ex.exists = Fault
       THEN [same EXCEPT !.scan = [sc EXCEPT !.pc = "fault"]]
       ELSE IF ex.exists = "FALSE"
       THEN [same EXCEPT !.scan = NextPath(sc),
                         !.swallowed = IF mp = MissingPath THEN met
                                       ELSE met \cup {"probe"}]
       ELSE IF rd.res.status = Fault
       THEN [same EXCEPT !.scan = [sc EXCEPT !.pc = "fault"], !.t = rd.t]
       ELSE IF EFI_ERROR(rd.res.status)
       THEN [same EXCEPT !.scan = NextPath(sc), !.t = rd.t,
                         !.swallowed = met \cup {"read"}]
       ELSE IF remaining = 0
       THEN [same EXCEPT !.scan = [sc EXCEPT !.pc = "returned", !.pp = 0,
                                             !.path = 0],
                         !.t = rd.t,
                         !.probe = Probe(sc, TRUE, TRUE, FALSE)]
       ELSE [scan      |-> NextParser(sc),
             targets   |-> TargetList(
                               ApplyWrites(tl.entries, base, r.writes),
                               IF ~EFI_ERROR(r.status) /\ r.found > 0
                               THEN tl.count + r.found ELSE tl.count),
             parseCall |-> ParseCall(TRUE, tl.count, remaining,
                                     SlotsWritten(base, r.writes),
                                     tl.entries, r.status, r.found),
             swallowed |-> IF EFI_ERROR(r.status) THEN met \cup {"parse"}
                           ELSE met,
             t         |-> rd.t,
             probe     |-> Probe(sc, TRUE, TRUE, TRUE)]

\* the body of the loop over config paths for the parser and path the scan
\* is at.  env and renv are what the device does on the two VFS calls.
ScanProbe ==
    /\ scan.pc = "probe"
    /\ \E d \in {handles[scan.i]}, parser \in {parsers[scan.pp]} :
       \E path \in {parser.config_paths[scan.path]} :
       \E mp \in {ModelPath(d, path)} :
       \E env \in VfsEnvs(d, mp), renv \in VfsEnvs(d, mp) :
       \E ex \in {sb_vfs_file_exists(Table(mounts, mount_count), d, mp,
                                     env)} :
       \E rd \in {sb_vfs_read_file(ex.t, d, mp, 0, renv)} :
       \E r \in {parse(parser, d, path, Remaining(targets.count))} :
       \E n \in {probe_path(scan, targets, parseCall, swallowed, mp,
                            ex, rd, r)} :
            /\ scan' = n.scan
            /\ targets' = n.targets
            /\ parseCall' = n.parseCall
            /\ swallowed' = n.swallowed
            /\ mounts' = n.t.mounts
            /\ mount_count' = n.t.mount_count
            /\ probes' = probes \cup {n.probe}
    /\ visited' = visited \cup {<<scan.i, scan.pp>>}
    /\ UNCHANGED handles
    /\ UNCHANGED othersOfScan

\* scan_partition has returned: `if (count >= SB_MAX_TARGETS) break;`, and
\* the return of the scan after the break
ScanNextPartition ==
    /\ scan.pc = "returned"
    /\ IF targets.count >= SB_MAX_TARGETS
       THEN scan' = ScanState("done", scan.i, 0, 0, ScanResult(targets.count))
       ELSE scan' = ScanState("loop", scan.i + 1, 0, 0, "none")
    /\ UNCHANGED <<handles, targets, parseCall, visited, swallowed, probes>>
    /\ UNCHANGED <<mounts, mount_count>>
    /\ UNCHANGED othersOfScan

NextScan ==
    \/ ScanStart
    \/ ScanFilter
    \/ ScanOpen
    \/ ScanProbe
    \/ ScanNextPartition

(***************************************************************************)
(* Properties of the scanner                                               *)
(***************************************************************************)
\* position of a device in the handle buffer, 0 when it is not in it
HandlePos(d) ==
    LET at == {i \in 1..Len(handles) : handles[i] = d}
    IN IF at = {} THEN 0 ELSE CHOOSE i \in at : \A j \in at : i <= j

\* entry a comes from an earlier place of the scan than entry b: an earlier
\* partition, or the same partition and an earlier parser, or the same
\* file and an earlier section of it
ScannedBefore(a, b) ==
    LET ia == HandlePos(a.device_handle)
        ib == HandlePos(b.device_handle)
    IN \/ ia < ib
       \/ ia = ib /\ a.config_type < b.config_type
       \/ ia = ib /\ a.config_type = b.config_type /\ a.title < b.title

\* C9: during and after sb_scan_all_devices targets.count is at most 64;
\* every parse call is handed a slice of at least one slot and writes only
\* slots of the tail entries[count..63]; the entries before the slice are
\* after the call what they were before it; and the list is in the order
\* (partition in handle order, parser in registration order, emit order).
C9_ScanAppendsInOrder ==
    /\ targets.count <= SB_MAX_TARGETS
    /\ parseCall.called =>
           /\ parseCall.max >= 1
           /\ parseCall.lo + parseCall.max <= SB_MAX_TARGETS
           /\ parseCall.slots \subseteq
                  (parseCall.lo + 1)..(parseCall.lo + parseCall.max)
           /\ \A s \in 1..parseCall.lo :
                  targets.entries[s] = parseCall.before[s]
    /\ \A s \in 1..targets.count :
           /\ targets.entries[s].bootable
           /\ HandlePos(targets.entries[s].device_handle) > 0
    /\ \A s \in 1..(targets.count - 1) :
           ScannedBefore(targets.entries[s], targets.entries[s + 1])

\* the scan has returned with a full list that two partitions and two
\* parsers filled, the last parse call cut short by the end of the list
C9_Witness ==
    /\ scan.pc = "done"
    /\ targets.count = SB_MAX_TARGETS
    /\ parseCall.called
    /\ parseCall.lo > 0
    /\ parseCall.found = parseCall.max
    /\ targets.entries[1].device_handle
           # targets.entries[SB_MAX_TARGETS].device_handle
    /\ \E s \in 1..SB_MAX_TARGETS :
           targets.entries[s].config_type
               # targets.entries[SB_MAX_TARGETS].config_type

\* the list was full when the third parser of a partition found its file:
\* scan_partition returned without a parse call
FullListSkipsParse ==
    /\ scan.pc = "returned"
    /\ targets.count = SB_MAX_TARGETS
    /\ <<scan.i, 3>> \in visited
    /\ parseCall.lo + parseCall.found = SB_MAX_TARGETS
    /\ targets.entries[SB_MAX_TARGETS].config_type = CONFIG_TYPE_SYSTEMD_BOOT

\* a parse call left an entry that does not count in the slot after the
\* ones it appended
ScratchSlotWritten ==
    /\ parseCall.called
    /\ parseCall.lo + parseCall.found + 1 \in parseCall.slots

\* handle i passes the filter of the scan loop
Eligible(i) ==
    /\ HasBlockIo(handles[i])
    /\ LogicalPartition(handles[i])
    /\ MediaPresent(handles[i])

\* the list was full before the scan came to parser pp of partition i
\* (pp = 0: to partition i)
FullBefore(i, pp) ==
    LET e == targets.entries[SB_MAX_TARGETS]
    IN /\ targets.count = SB_MAX_TARGETS
       /\ \/ HandlePos(e.device_handle) < i
          \/ HandlePos(e.device_handle) = i /\ e.config_type < pp

NothingFound ==
    /\ scan.pc = "done"
    /\ scan.i >= 1
    /\ "open" \in swallowed
    /\ targets.count = 0
    /\ scan.ret = EFI_NOT_FOUND

\* the scan stopped on a divide error
ScanFaulted == scan.pc = "fault"

(***************************************************************************)
(* Parser invocations (config/config.h: parse)                             *)
(***************************************************************************)
\* sections of a config file or records of an entries directory, capacity
\* of the output slice, and invocations on the same arguments
MaxSections == 2
MaxSlice == 2
MaxRuns == 2

ItemKinds == {"entry", "chain", "chain_bare", "empty"}

SeqsUpTo(S, n) == UNION {[1..k -> S] : k \in 0..n}

\* What the firmware does during one systemd_boot_parse call:
\*   volume  OpenVolume and Open(\loader\entries) succeed
\*   stop    the record at which entries_dir->Read fails (0: none); the
\*           loop breaks there
\*   lost    the records whose Open, AllocatePool or Read fails; the loop
\*           continues past them
FirmwareEnv(volume, stop, lost) ==
    [volume |-> volume, stop |-> stop, lost |-> lost]

QuietEnv == FirmwareEnv(TRUE, 0, {})

FirmwareEnvs(n) ==
    {FirmwareEnv(TRUE, st, lost) : st \in 0..n, lost \in SUBSET (1..n)}
        \cup {FirmwareEnv(FALSE, 0, {})}

\* the directory \loader\entries as one call enumerates it
DirAsRead(dir, env) ==
    IF ~env.volume THEN NoFile
    ELSE LET n == IF env.stop = 0 THEN Len(dir.items)
                  ELSE Min(env.stop - 1, Len(dir.items))
         IN File(dir.present,
                 [k \in 1..n |-> IF k \in env.lost THEN "skip"
                                 ELSE dir.items[k]],
                 FALSE)

\* the arguments of a parse call.  `file` is what the origin holds: the
\* bytes of the config file for the parsers that parse them, and for
\* systemd-boot the entry files of \loader\entries on the origin device.
ParseInput(pp, file, device, max) ==
    [pp |-> pp, file |-> file, device |-> device,
     path |-> parsers[pp].config_paths[1], max |-> max]

ParseDevices == {1, 2}

ParseInputs ==
    {ParseInput(pp, File(TRUE, items, FALSE), d, max) :
        pp \in 1..Len(parsers), items \in SeqsUpTo(ItemKinds, MaxSections),
        d \in ParseDevices, max \in 0..MaxSlice}

\* parsers[pp]->parse(data, size, device, path, targets, &count, max)
invoke_parse(in, env) ==
    IF parsers[in.pp].type = CONFIG_TYPE_GRUB
    THEN grub_parse(in.file, in.device, in.path, in.max)
    ELSE IF parsers[in.pp].type = CONFIG_TYPE_SYSTEMD_BOOT
    THEN systemd_boot_parse(DirAsRead(in.file, env), in.device, in.path,
                            in.max)
    ELSE limine_parse(in.file, in.device, in.path, in.max)

\* an entry left in the output slice by something else
StaleTarget == BootTarget(CONFIG_TYPE_GRUB, 99, "stale", 7, 9, "chain")

\* the output slice after the writes of a call
SliceAfter(slice, writes) ==
    [s \in 1..Len(slice) |->
        LET ws == {k \in 1..Len(writes) : writes[k].at + 1 = s}
        IN IF ws = {} THEN slice[s]
           ELSE writes[CHOOSE k \in ws : \A j \in ws : j <= k].entry]

\* one invocation: what the firmware did, the slice handed in, the result
\* and the slice afterwards
ParseRun(env, before, res) ==
    [env |-> env, before |-> before, status |-> res.status,
     found |-> res.found, slice |-> SliceAfter(before, res.writes)]

\* the entries a run emitted: the first *count slots of its slice
Emitted(run) == [s \in 1..run.found |-> run.slice[s]]

\* the slices a caller may hand in: zeroed, holding stale entries, or the
\* one the previous invocation filled
SlicesFor(in, runs) ==
    {[s \in 1..in.max |-> ZeroTarget], [s \in 1..in.max |-> StaleTarget]}
        \cup (IF runs = <<>> THEN {} ELSE {runs[Len(runs)].slice})

IdleParse ==
    /\ pin = ParseInput(1, NoFile, 1, 0)
    /\ pruns = <<>>

InitParse ==
    /\ pin \in ParseInputs
    /\ pruns = <<>>

\* parse is called on pin
ParseInvoke ==
    /\ Len(pruns) < MaxRuns
    /\ \E env \in (IF parsers[pin.pp].type = CONFIG_TYPE_SYSTEMD_BOOT
                   THEN FirmwareEnvs(Len(pin.file.items))
                   ELSE {QuietEnv}) :
       \E before \in SlicesFor(pin, pruns) :
       \E res \in {invoke_parse(pin, env)} :
            pruns' = Append(pruns, ParseRun(env, before, res))
    /\ UNCHANGED pin
    /\ UNCHANGED othersOfParse

NextParse == ParseInvoke

(***************************************************************************)
(* Properties of the parsers                                               *)
(***************************************************************************)
\* two invocations handed back the same status, count and emitted entries
SameOutput(a, b) ==
    /\ a.status = b.status
    /\ a.found = b.found
    /\ Emitted(a) = Emitted(b)

\* C11: parse is a deterministic function of the config bytes and the
\* origin: any two invocations on the same arguments, with output slices of
\* the same capacity, hand back the same status, the same count and equal
\* emitted entries, whatever an earlier invocation left behind.
C11_ParseDeterministic ==
    \A i \in 1..Len(pruns), j \in 1..Len(pruns) :
        SameOutput(pruns[i], pruns[j])

\* systemd_boot_parse was called twice on the same arguments and the two
\* calls emitted different entries: the firmware failed a read, an open or
\* an allocation in one of them and the parser went on without reporting it
FirmwareChangesParse ==
    /\ Len(pruns) = 2
    /\ parsers[pin.pp].type = CONFIG_TYPE_SYSTEMD_BOOT
    /\ pruns[1].status = EFI_SUCCESS /\ pruns[2].status = EFI_SUCCESS
    /\ pruns[1].found # pruns[2].found

\* what does hold: the parsers that only read the bytes are deterministic,
\* systemd_boot_parse is when the firmware answers alike, and no parser's
\* output depends on what the slice held before the call
ParseDeterministicGivenFirmware ==
    \A i \in 1..Len(pruns), j \in 1..Len(pruns) :
        pruns[i].env = pruns[j].env => SameOutput(pruns[i], pruns[j])

\* C12: every entry a parser counts into its output has the path its kind
\* of boot needs: efi_path is non-empty if is_chainload is set, and
\* kernel_path is non-empty otherwise.
C12_CountedEntryHasItsPath ==
    \A i \in 1..Len(pruns) :
        \A s \in 1..pruns[i].found :
            LET e == pruns[i].slice[s]
            IN IF e.is_chainload THEN e.efi_path # ""
               ELSE e.kernel_path # ""

\* a parser counted an entry with the chainload flag and no EFI path
BareChainloadCounted ==
    \E i \in 1..Len(pruns) :
        \E s \in 1..pruns[i].found :
            /\ pruns[i].slice[s].is_chainload
            /\ pruns[i].slice[s].efi_path = ""
            /\ pruns[i].slice[s].config_type = CONFIG_TYPE_LIMINE

\* what does hold: an entry that is not a chainload has a kernel path
CountedKernelEntryHasKernelPath ==
    \A i \in 1..Len(pruns) :
        \A s \in 1..pruns[i].found :
            ~pruns[i].slice[s].is_chainload
                => pruns[i].slice[s].kernel_path # ""

(***************************************************************************)
(* sb_efi_memmap_to_e820 on memory maps of its own                         *)
(***************************************************************************)
\* descriptors in a map and capacities of the output table tried
MaxDescs == 3
MaxCap == 3

\* EFI_MEMORY_DESCRIPTOR
MemDesc(type, start, pages) ==
    [Type |-> type, PhysicalStart |-> start, NumberOfPages |-> pages]

ConvTypes == {EfiLoaderCode, EfiLoaderData, EfiACPIReclaimMemory}

\* the descriptors a map may go on with after a descriptor ending at `end`:
\* one that abuts it, or one that leaves a hole of a page
DescsAfter(end) ==
    {MemDesc(t, end + gap * PAGE_SIZE, pages) :
        t \in ConvTypes, gap \in {0, 1}, pages \in {1, 2}}

DescEnd(md) == md.PhysicalStart + md.NumberOfPages * PAGE_SIZE

RECURSIVE MapsOfLen(_)
MapsOfLen(n) ==
    IF n = 0 THEN {<<>>}
    ELSE UNION {{Append(m, md) :
                    md \in DescsAfter(IF m = <<>> THEN 0
                                      ELSE DescEnd(m[Len(m)]))} :
                m \in MapsOfLen(n - 1)}

ConvMaps == UNION {MapsOfLen(n) : n \in 0..MaxDescs}

ConvCall(called, mmap, max_entries, e820) ==
    [called |-> called, mmap |-> mmap, max_entries |-> max_entries,
     e820 |-> e820]

IdleConv == conv = ConvCall(FALSE, <<>>, 0, <<>>)

InitConv == conv = ConvCall(FALSE, <<>>, 0, <<>>)

\* count = sb_efi_memmap_to_e820(mmap, mmap_size, desc_size, e820, max)
E820Convert ==
    /\ ~conv.called
    /\ \E mmap \in ConvMaps, max \in (0..MaxCap) \cup {E820_MAX} :
            conv' = ConvCall(TRUE, mmap, max,
                             sb_efi_memmap_to_e820(mmap,
                                                   Len(mmap) * desc_size,
                                                   desc_size, max))
    /\ UNCHANGED othersOfConv

\* the caller is done with the table
E820Release ==
    /\ conv.called
    /\ conv' = ConvCall(FALSE, <<>>, 0, <<>>)
    /\ UNCHANGED othersOfConv

NextE820 == E820Convert \/ E820Release

(***************************************************************************)
(* Properties of the conversion                                            *)
(***************************************************************************)
\* descriptor i goes on the run of descriptor i - 1: equal mapped types and
\* abutting ranges
ContinuesRun(mmap, i) ==
    /\ i > 1
    /\ efi_mem_to_e820_type(mmap[i].Type)
           = efi_mem_to_e820_type(mmap[i - 1].Type)
    /\ DescEnd(mmap[i - 1]) = mmap[i].PhysicalStart

\* the descriptors that start a run, and the k-th of them
RunStarts(mmap) == {i \in 1..Len(mmap) : ~ContinuesRun(mmap, i)}

RunStart(mmap, k) ==
    CHOOSE i \in RunStarts(mmap) :
        Cardinality({j \in RunStarts(mmap) : j <= i}) = k

\* the last descriptor of the run that starts at i
RunLast(mmap, i) ==
    CHOOSE j \in i..Len(mmap) :
        /\ \A x \in (i + 1)..j : ContinuesRun(mmap, x)
        /\ j = Len(mmap) \/ ~ContinuesRun(mmap, j + 1)

RECURSIVE SumBytes(_, _, _)
SumBytes(mmap, i, j) ==
    IF i > j THEN 0
    ELSE mmap[i].NumberOfPages * PAGE_SIZE + SumBytes(mmap, i + 1, j)

\* the entry for the descriptors i..j of one run
RunEntry(mmap, i, j) ==
    [addr |-> mmap[i].PhysicalStart, size |-> SumBytes(mmap, i, j),
     type |-> efi_mem_to_e820_type(mmap[i].Type)]

\* the k-th run as one entry with the sizes summed
WholeRun(mmap, k) ==
    RunEntry(mmap, RunStart(mmap, k), RunLast(mmap, RunStart(mmap, k)))

\* C13 as stated: every run of consecutive descriptors with equal mapped
\* types and abutting ranges is one output entry with the sizes summed, a
\* descriptor of another type or not abutting starts a new entry, and the
\* output holds no more entries than its capacity.
C13_RunsCoalesced ==
    conv.called =>
        /\ Len(conv.e820) <= conv.max_entries
        /\ Len(conv.e820)
               = Min(conv.max_entries, Cardinality(RunStarts(conv.mmap)))
        /\ \A k \in 1..Len(conv.e820) :
               conv.e820[k] = WholeRun(conv.mmap, k)

\* C13 (amended): the walk stops as soon as the output holds max_entries
\* entries.  Runs are coalesced as stated while the output is not full; the
\* entry that fills it holds the first descriptor of its run only.
C13_RunsCoalescedUntilFull ==
    conv.called =>
        /\ Len(conv.e820) <= conv.max_entries
        /\ Len(conv.e820)
               = Min(conv.max_entries, Cardinality(RunStarts(conv.mmap)))
        /\ \A k \in 1..Len(conv.e820) :
               conv.e820[k] =
                   IF k = conv.max_entries
                   THEN RunEntry(conv.mmap, RunStart(conv.mmap, k),
                                 RunStart(conv.mmap, k))
                   ELSE WholeRun(conv.mmap, k)

\* the map {0x0, 0x1000, LoaderCode}, {0x1000, 0x2000, LoaderData},
\* {0x4000, 0x1000, ACPIReclaim} was converted to {0x0, 0x3000, 1},
\* {0x4000, 0x1000, 3}
C13_Witness ==
    /\ conv.called
    /\ conv.mmap = << MemDesc(EfiLoaderCode, 0, 1),
                      MemDesc(EfiLoaderData, PAGE_SIZE, 2),
                      MemDesc(EfiACPIReclaimMemory, 4 * PAGE_SIZE, 1) >>
    /\ conv.e820 = << [addr |-> 0, size |-> 3 * PAGE_SIZE, type |-> 1],
                      [addr |-> 4 * PAGE_SIZE, size |-> PAGE_SIZE,
                       type |-> 3] >>

\* the output filled up on the first descriptor of a run of two
FullOutputCutsRun ==
    /\ conv.called
    /\ Len(conv.e820) = conv.max_entries
    /\ conv.max_entries > 0
    /\ conv.e820[conv.max_entries]
           # WholeRun(conv.mmap, conv.max_entries)

(***************************************************************************)
(* ext4_resolve_path on paths of its own                                   *)
(***************************************************************************)
\* characters in a path handed to the resolution
ResolveLen == 5

PathChars == {"\\", "/", "b", "v"}

\* paths that go on below the regular file "f"
BelowFilePaths == { <<"\\", "f", "\\", "v">>, <<"f", "/", "v">>,
                    <<"/", "f", "/", "v", "/", "v">> }

ResolvePaths ==
    UNION {[1..n -> PathChars] : n \in 0..ResolveLen} \cup BelowFilePaths

ResolveEnvs == { AllOk,
                 [AllOk EXCEPT !.resolve_io_ok = FALSE],
                 [AllOk EXCEPT !.dir_alloc_ok = FALSE],
                 [AllOk EXCEPT !.dir_fail_at = 1] }

ResolveCall(called, path, env, ino) ==
    [called |-> called, path |-> path, env |-> env, ino |-> ino]

NoResolveCall == ResolveCall(FALSE, <<>>, AllOk, 0)

IdleResolve == rp = NoResolveCall

\* an ext4 volume mounted over Disk I/O
InitResolve ==
    /\ rp = NoResolveCall
    /\ \E l \in LogBlockSizes :
         /\ vol = StdVolume(EXT4_SUPER_MAGIC, l, PlainFile(Shl1024(l)))
         /\ e4ctx = ext4_mount(vol, TRUE, "ok", TRUE).ctx
    /\ e4 = NoExt4Call

\* ino = ext4_resolve_path(c, path)
Ext4Resolve ==
    /\ ~rp.called
    /\ \E path \in ResolvePaths, env \in ResolveEnvs :
         rp' = ResolveCall(TRUE, path, env,
                           ext4_resolve_path(e4ctx, vol, path, env))
    /\ UNCHANGED othersOfResolve

\* the caller goes on with the inode
Ext4Resolved ==
    /\ rp.called
    /\ rp' = NoResolveCall
    /\ UNCHANGED othersOfResolve

NextResolve == Ext4Resolve \/ Ext4Resolved

(***************************************************************************)
(* Properties of the path resolution                                       *)
(***************************************************************************)
IsSeparator(ch) == ch \in {"\\", "/"}

\* the characters of a path that are left when every run of separators is
\* cut down to its last one and a separator at the end is dropped
KeptChars(path) ==
    {i \in 1..Len(path) :
        IsSeparator(path[i]) =>
            i < Len(path) /\ ~IsSeparator(path[i + 1])}

\* the path written with single forward slashes and no trailing separator
Canonical(path) ==
    LET K      == KeptChars(path)
        at(j)  == CHOOSE i \in K : Cardinality({k \in K : k <= i}) = j
    IN [j \in 1..Cardinality(K) |->
           IF IsSeparator(path[at(j)]) THEN "/" ELSE path[at(j)]]

\* C14: the root paths resolve to inode 2, and a path resolves to the inode
\* its canonical spelling resolves to: backslash or forward slash, a
\* trailing separator and repeated separators make no difference.
C14_SeparatorsDoNotMatter ==
    rp.called =>
        /\ rp.path \in {<<>>, <<"\\">>, <<"/">>} => rp.ino = EXT4_ROOT_INO
        /\ rp.ino = ext4_resolve_path(e4ctx, vol, Canonical(rp.path), rp.env)

\* "b\/v/", with a doubled separator of both kinds and a trailing one,
\* resolved to the file b/v
C14_Witness ==
    /\ rp.called
    /\ rp.path = <<"b", "\\", "/", "v", "/">>
    /\ Canonical(rp.path) = <<"b", "/", "v">>
    /\ rp.ino = 12

(***************************************************************************)
(* Memory discipline of sb_boot_linux (boot/linux.c)                       *)
(***************************************************************************)
\* sb_boot_linux has read the kernel image and has returned an error to its
\* caller without any hand-off and with boot services still running
FailedBeforeExit ==
    /\ pc = "returned"
    /\ kernel # NoKernel
    /\ EFI_ERROR(ret)
    /\ handoff.kind = "none"
    /\ ~fw.exited

\* C15: when sb_boot_linux fails before ExitBootServices has succeeded
\* (kernel too small, bad HdrS magic, zero-page, kernel-page or map-buffer
\* allocation failure, GetMemoryMap failure), every pool buffer and page
\* range it allocated has been released by the time it returns the error.
C15_FailureReleasesEverything == FailedBeforeExit => live = {}

\* the two failures of the header validation do free the kernel file buffer
RejectedKernelIsFreed ==
    (FailedBeforeExit /\ calls[Len(calls)].op = "FreePool")
        => Buf("kernel_buf", 0) \notin live

\* the zero-page allocation failed: the kernel file buffer is still held
ZeroPageFailureLeaks ==
    /\ FailedBeforeExit
    /\ ret = EFI_OUT_OF_RESOURCES
    /\ Buf("bp", 0) \notin live
    /\ Buf("kernel_buf", 0) \in live

(***************************************************************************)
(* The E820 table the kernel is handed (boot/linux.c, legacy path)         *)
(***************************************************************************)
\* the conversion of the map the last successful GetMemoryMap call returned
LastMapConverted ==
    sb_efi_memmap_to_e820(loc.mmap, loc.mmap_size, desc_size, E820_MAX)

\* C17: on the legacy path, whenever the kernel entry is jumped to, the E820
\* table and the e820_entries count of the zero page are the conversion of
\* the memory map returned by the last GetMemoryMap call (the map whose key
\* ExitBootServices accepted), also when the first ExitBootServices call
\* failed and the map was fetched again for the retry.
C17_E820IsLastMap ==
    handoff.kind = "legacy" =>
        /\ handoff.bp.e820_table = LastMapConverted
        /\ handoff.bp.e820_entries = Len(LastMapConverted)

\* without a retry the table handed over is the conversion of the only map
E820IsLastMapWithoutRetry ==
    (handoff.kind = "legacy" /\ Cardinality(EbsCalls) = 1) =>
        /\ handoff.bp.e820_table = LastMapConverted
        /\ handoff.bp.e820_entries = Len(LastMapConverted)

\* the kernel was entered after a retry with the table of the first map
StaleE820AfterRetry ==
    /\ handoff.kind = "legacy"
    /\ Cardinality(EbsCalls) = 2
    /\ handoff.bp.e820_table # LastMapConverted

(***************************************************************************)
(* Where the data-read loop of ext4_read_file stores (fs/ext4.c)           *)
(***************************************************************************)
\* read_file has handed back the buffer it allocated and filled
FileWasRead ==
    /\ e4.op = "read_file"
    /\ e4.res.status = EFI_SUCCESS
    /\ e4.res.buffer.state = "allocated"

\* C18: ext4_read_file never writes outside the size+1-byte buffer it
\* allocates: for every file size and block size, every byte stored by the
\* data-read loop lands at an index below `size`, and index `size` receives
\* only the trailing NUL.
C18_ReadStaysInBuffer ==
    FileWasRead =>
        /\ e4.res.buffer.cap = e4.res.size + 1
        /\ e4.res.buffer.nul_at = e4.res.size
        /\ \A k \in 1..Len(e4.res.buffer.writes) :
             e4.res.buffer.writes[k].at + e4.res.buffer.writes[k].len
                 <= e4.res.size

\* a file whose size is a multiple of the block size is stored in bounds
WholeBlocksStayInBuffer ==
    (FileWasRead /\ e4.res.size % e4ctx.block_size = 0) =>
        /\ Overrun(e4.res.buffer) = 0
        /\ \A k \in 1..Len(e4.res.buffer.writes) :
             e4.res.buffer.writes[k].at + e4.res.buffer.writes[k].len
                 <= e4.res.size

\* the last block of a file was stored whole, past the end of the buffer
LastBlockOverrunsBuffer ==
    /\ FileWasRead
    /\ e4.res.size % e4ctx.block_size # 0
    /\ Overrun(e4.res.buffer) > 0

(***************************************************************************)
(* Open policy of the VFS dispatcher (fs/vfs.c)                            *)
(***************************************************************************)
\* ext4, then the deferring stubs
DriverOrder == <<"ext4", "btrfs", "xfs", "ntfs">>

\* sb_vfs_open_device was called on a device that was not mounted
OpenedUnmounted ==
    /\ vfsCall.op = "open"
    /\ ~MountedIn(vfsCall.before, vfsCall.device)

\* the table after the call is the table before it plus entry m
Recorded(m) ==
    /\ mount_count = vfsCall.before.mount_count + 1
    /\ Entries(Table(mounts, mount_count))
           = Append(Entries(vfsCall.before), m)

NothingRecorded ==
    /\ mount_count = vfsCall.before.mount_count
    /\ Entries(Table(mounts, mount_count)) = Entries(vfsCall.before)

\* the driver callbacks ran in the fixed order: pass k asked driver k, called
\* mount exactly when the probe succeeded, and the loop went on to the next
\* driver only after a probe or a mount that failed
TriedInOrder(tried) ==
    /\ Len(tried) <= Len(DriverOrder)
    /\ \A k \in 1..Len(tried) :
         /\ tried[k].drv = DriverOrder[k]
         /\ (tried[k].mount = "none") <=> EFI_ERROR(tried[k].probe)
         /\ k < Len(tried) =>
                \/ EFI_ERROR(tried[k].probe)
                \/ EFI_ERROR(tried[k].mount)

\* the last pass found a driver whose probe and mount both succeeded
LastTook(tried) ==
    /\ Len(tried) > 0
    /\ ~EFI_ERROR(tried[Len(tried)].probe)
    /\ tried[Len(tried)].mount = EFI_SUCCESS

OpenPolicy ==
    IF HasSimpleFileSystem(vfsCall.device)
    THEN /\ vfsCall.status = EFI_SUCCESS
         /\ vfsCall.tried = <<>>
         /\ Recorded(VfsMount(vfsCall.device, TRUE, "NULL", NoContext))
    ELSE /\ TriedInOrder(vfsCall.tried)
         /\ IF LastTook(vfsCall.tried)
            THEN /\ vfsCall.status = EFI_SUCCESS
                 /\ Recorded(VfsMount(
                        vfsCall.device, FALSE,
                        vfsCall.tried[Len(vfsCall.tried)].drv,
                        DriverMount(vfsCall.tried[Len(vfsCall.tried)].drv,
                                    vfsCall.device).ctx))
            ELSE /\ vfsCall.status = EFI_UNSUPPORTED
                 /\ HasBlockIo(vfsCall.device)
                        => Len(vfsCall.tried) = Len(DriverOrder)
                 /\ NothingRecorded

\* C19: sb_vfs_open_device on a device that is not yet mounted records a
\* native mount whenever the firmware file-system protocol is available on
\* the handle, without running any built-in probe; otherwise it tries the
\* built-in drivers in the order ext4, btrfs, xfs, ntfs and records the
\* first whose probe and mount both succeed, with its state; if none does
\* it returns unsupported and the mount table gains no entry.
C19_OpenPolicy == OpenedUnmounted => OpenPolicy

\* C19 as the code has it: the policy applies while the mount table has
\* room; with VFS_MAX_MOUNTS mounts the call returns out-of-resources
\* before the file-system protocol is asked for and before any probe, and
\* records nothing.
C19_OpenPolicyWhileRoom ==
    OpenedUnmounted =>
        IF vfsCall.before.mount_count < VFS_MAX_MOUNTS
        THEN OpenPolicy
        ELSE /\ vfsCall.status = EFI_OUT_OF_RESOURCES
             /\ vfsCall.tried = <<>>
             /\ NothingRecorded

\* an ext4 volume was mounted by the first driver, and a volume only a stub
\* recognises went through all four drivers
C19_Witness ==
    /\ OpenedUnmounted
    /\ KindOf(vfsCall.device) = "btrfs"
    /\ Len(vfsCall.tried) = 4
    /\ vfsCall.tried[2].mount = EFI_UNSUPPORTED
    /\ vfsCall.status = EFI_UNSUPPORTED
    /\ \E i \in 1..mount_count :
         /\ mounts[i].driver = "ext4"
         /\ mounts[i].fs_context.mounted

\* a native volume is refused because the table is full
NativeRefusedWhenFull ==
    /\ OpenedUnmounted
    /\ HasSimpleFileSystem(vfsCall.device)
    /\ vfsCall.status = EFI_OUT_OF_RESOURCES

(***************************************************************************)
(* Which probe paths the scanner uses (scan/scan.c)                        *)
(***************************************************************************)
\* two passes of the config-path loop for the same parser on the same
\* partition
SamePair(p, q) == p.i = q.i /\ p.pp = q.pp

FirstPathParsed ==
    \E p \in probes :
        /\ p.parsed
        /\ p.path = 1
        /\ scan.pc = "done"

(***************************************************************************)
(* Orchestrator (main.c): efi_main after sb_init_context, which always     *)
(* returns success, and sb_vfs_init, whose failure is only logged          *)
(***************************************************************************)
MainState(at, selected, loaded, status, handed) ==
    [pc |-> at, selected |-> selected, loaded |-> loaded, ret |-> status,
     handed |-> handed]

\* efi_main is not running
IdleMain == main = MainState("off", 0, "none", "none", FALSE)

\* efi_main has reached Phase 2, the scan
InitMain == main = MainState("scan", 0, "none", "none", FALSE)

\* `return status` of efi_main
MainReturn(status) == [main EXCEPT !.pc = "returned", !.ret = status]

\* `if (EFI_ERROR(status) || ctx.targets.count == 0)` after the scan
MainScanned ==
    /\ main.pc = "scan"
    /\ scan.pc = "done"
    /\ IF EFI_ERROR(scan.ret) \/ targets.count = 0
       THEN main' = MainReturn(EFI_NOT_FOUND)
       ELSE main' = [main EXCEPT !.pc = "menu"]
    /\ UNCHANGED <<mounts, mount_count>>
    /\ UNCHANGED othersOfMain

\* sb_tui_run_menu: the default entry or the one the user moved to, between
\* 0 and count - 1
MainMenu ==
    /\ main.pc = "menu"
    /\ IF targets.count = 0
       THEN main' = MainReturn(EFI_NOT_FOUND)
       ELSE \E selected \in 0..(targets.count - 1) :
              main' = [main EXCEPT !.pc = "boot", !.selected = selected]
    /\ UNCHANGED <<mounts, mount_count>>
    /\ UNCHANGED othersOfMain

\* sb_boot_selected up to the SB_CHECK after sb_vfs_read_file in
\* sb_chainload_efi and sb_boot_linux: the file the entry names is there
\* or is not, and the device answers as env says
MainBootSelected ==
    /\ main.pc = "boot"
    /\ \E t \in {targets.entries[main.selected + 1]} :
       \E mp \in VfsPaths :
       \E env \in VfsEnvs(t.device_handle, mp) :
       \E rd \in {sb_vfs_read_file(Table(mounts, mount_count),
                                   t.device_handle, mp, 0, env)} :
         /\ mounts' = rd.t.mounts
         /\ mount_count' = rd.t.mount_count
         /\ IF rd.res.status = Fault
            THEN main' = [main EXCEPT !.pc = "fault"]
            ELSE IF EFI_ERROR(rd.res.status)
            THEN main' = MainReturn(rd.res.status)
            ELSE main' = [main EXCEPT
                             !.pc = "loaded",
                             !.loaded = IF t.is_chainload THEN "efi"
                                        ELSE "kernel"]
    /\ UNCHANGED othersOfMain

\* statuses sb_boot_linux returns once the kernel image is read and before
\* boot services are exited
LinuxFailures ==
    {EFI_INVALID_PARAMETER, EFI_OUT_OF_RESOURCES, EFI_BUFFER_TOO_SMALL}

\* statuses LoadImage fails with on a buffer that was read
LoadImageFailures == {EFI_UNSUPPORTED, EFI_LOAD_ERROR, EFI_OUT_OF_RESOURCES}

\* the rest of sb_chainload_efi: LoadImage fails, or the image is started
\* and whatever it exits with is returned
MainChainload ==
    /\ main.pc = "loaded"
    /\ main.loaded = "efi"
    /\ \/ \E status \in LoadImageFailures : main' = MainReturn(status)
       \/ \E status \in {EFI_SUCCESS, EFI_NOT_FOUND, EFI_LOAD_ERROR} :
            main' = [MainReturn(status) EXCEPT !.handed = TRUE]
    /\ UNCHANGED <<mounts, mount_count>>
    /\ UNCHANGED othersOfMain

\* the rest of sb_boot_linux: it fails before the hand-off, or the kernel
\* is entered and nothing returns
MainLinux ==
    /\ main.pc = "loaded"
    /\ main.loaded = "kernel"
    /\ \/ \E status \in LinuxFailures : main' = MainReturn(status)
       \/ main' = [main EXCEPT !.pc = "kernel", !.handed = TRUE]
    /\ UNCHANGED <<mounts, mount_count>>
    /\ UNCHANGED othersOfMain

NextMain ==
    \/ NextScan
    \/ MainScanned
    \/ MainMenu
    \/ MainBootSelected
    \/ MainChainload
    \/ MainLinux

(***************************************************************************)
(* Exit status of efi_main (main.c)                                        *)
(***************************************************************************)
\* efi_main has returned without having handed the machine over
ReturnedBeforeHandoff == main.pc = "returned" /\ ~main.handed

\* C16: efi_main returns the not-found status only when the scan discovered
\* no bootable entries; when at least one entry was discovered and the
\* selected boot fails before hand-off, the status returned is an error
\* other than not-found.
C16_NotFoundMeansNoEntries ==
    ReturnedBeforeHandoff =>
        /\ main.ret = EFI_NOT_FOUND => targets.count = 0
        /\ targets.count > 0 =>
               EFI_ERROR(main.ret) /\ main.ret # EFI_NOT_FOUND

\* what holds: a scan without entries ends in not-found, and a failure
\* before hand-off is always reported as an error
FailureIsAnError ==
    ReturnedBeforeHandoff =>
        /\ targets.count = 0 => main.ret = EFI_NOT_FOUND
        /\ EFI_ERROR(main.ret)

\* an entry was discovered and selected, its file is missing, and efi_main
\* returned not-found
MissingFileReturnsNotFound ==
    /\ ReturnedBeforeHandoff
    /\ targets.count > 0
    /\ main.loaded = "none"
    /\ main.ret = EFI_NOT_FOUND

\* sb_boot_linux returns nothing but LinuxFailures in that phase
LinuxFailuresAreAll == FailedBeforeExit => ret \in LinuxFailures

(***************************************************************************)
(* What load_initrds leaves behind (boot/linux.c)                          *)
(***************************************************************************)
\* load_initrds has just returned to sb_boot_linux
InitrdsLoaded == pc = "choose"

\* the files whose read succeeded, in listed order, with their sizes
RECURSIVE OkChunks(_, _)
OkChunks(reads, n) ==
    IF n = 0 THEN <<>>
    ELSE OkChunks(reads, n - 1)
         \o (IF EFI_ERROR(reads[n].status) THEN <<>>
             ELSE <<[file |-> n, len |-> reads[n].size]>>)

\* chunks that hold at least one byte
NonEmpty(chunks) == SelectSeq(chunks, LAMBDA c : c.len > 0)

RECURSIVE ChunkBytes(_, _)
ChunkBytes(chunks, n) ==
    IF n = 0 THEN 0 ELSE ChunkBytes(chunks, n - 1) + chunks[n].len

InitrdBufsLive == {b \in live : b.kind = "initrd_buf"}

\* C21: load_initrds places in the initrd region exactly the concatenation,
\* in listed order, of the contents of the initrd files whose read
\* succeeded; a file whose read failed contributes no bytes; the reported
\* total equals the number of bytes placed; and every per-file read buffer
\* has been released when load_initrds returns, on success and on failure.
C21_InitrdRegionAndBuffers ==
    InitrdsLoaded =>
        /\ NonEmpty(loc.region)
               = (IF loc.initrd_addr # 0
                  THEN NonEmpty(OkChunks(loc.reads, Len(loc.reads)))
                  ELSE <<>>)
        /\ loc.initrd_size = ChunkBytes(loc.region, Len(loc.region))
        /\ InitrdBufsLive = {}

\* what holds: when a region was allocated the read buffers are released
\* and the total reported is the sum of the sizes of the successful reads
RegionAllocatedFreesBuffers ==
    (InitrdsLoaded /\ loc.initrd_addr # 0) =>
        /\ InitrdBufsLive = {}
        /\ loc.initrd_size
               = ChunkBytes(OkChunks(loc.reads, Len(loc.reads)),
                            Len(OkChunks(loc.reads, Len(loc.reads))))

\* an initrd file of size 0 was read: load_initrds returned at
\* `if (total == 0)` with the file's buffer still allocated
EmptyInitrdLeaksBuffer ==
    /\ InitrdsLoaded
    /\ Len(loc.reads) > 0
    /\ \A i \in 1..Len(loc.reads) : loc.reads[i] = ReadOk(0)
    /\ InitrdBufsLive # {}

(***************************************************************************)
(* The filesystem state after ext4_mount (fs/ext4.c)                       *)
(***************************************************************************)
\* the context describes the superblock that is on the volume
ContextOfVolume(c, v) ==
    /\ c.sb = v.sb
    /\ c.block_size = Shl1024(v.sb.s_log_block_size)
    /\ c.inode_size = (IF v.sb.s_rev_level = 0 THEN 128
                       ELSE v.sb.s_inode_size)
    /\ c.group_desc_size = 32

\* C22: after a successful ext4 mount, whether the byte-addressable disk
\* interface is available or only the block-addressable one, the
\* filesystem state holds the on-disk superblock, block_size is
\* 1024 << s_log_block_size, inode_size is 128 for revision 0 and
\* s_inode_size otherwise, and the group-descriptor size is 32.
C22_MountHoldsSuperblock == e4ctx.mounted => ContextOfVolume(e4ctx, vol)

\* what holds: with the disk interface the state describes the volume
MountWithDiskIoHoldsSuperblock ==
    (e4ctx.mounted /\ e4ctx.disk_io) => ContextOfVolume(e4ctx, vol)

\* a volume was mounted through block I/O alone and the state holds a
\* superblock of zeroes
BlockOnlyMountHasNoSuperblock ==
    /\ e4ctx.mounted
    /\ ~e4ctx.disk_io
    /\ vol.sb.s_magic = EXT4_SUPER_MAGIC
    /\ e4ctx.sb = ZeroSuperblock
    /\ e4ctx.sb # vol.sb

(***************************************************************************)
(* Failing steps of the path resolution (fs/ext4.c)                        *)
(***************************************************************************)
\* the entries of a directory of the volume: those in the blocks of its
\* extents
DirNames(v, inode) ==
    UNION { { BlockEntries(v, inode.extents[i].ee_start)[j] :
              j \in 1..Len(BlockEntries(v, inode.extents[i].ee_start)) } :
            i \in 1..Len(inode.extents) }

\* what a path names on the volume, walking directories only: from inode
\* ino, the components of the canonical path cpath from position p on; 0
\* when a component is missing or its parent is not a directory
RECURSIVE NamedInode(_, _, _, _)
NamedInode(v, cpath, p, ino) ==
    IF p > Len(cpath) THEN ino
    ELSE IF cpath[p] = "/" THEN NamedInode(v, cpath, p + 1, ino)
    ELSE LET q    == ComponentEnd(cpath, p, 0)
             comp == SubSeq(cpath, p, q - 1)
             hits == IF ino \in DOMAIN v.inodes /\ v.inodes[ino].is_dir
                     THEN {e \in DirNames(v, v.inodes[ino]) :
                              e.inode # 0 /\ e.name = comp}
                     ELSE {}
         IN IF hits = {} THEN 0
            ELSE NamedInode(v, cpath, q, (CHOOSE e \in hits : TRUE).inode)

HasComponent(path) == \E i \in 1..Len(path) : ~IsSeparator(path[i])

\* a step of the resolution of rp.path fails: an inode or directory read
\* fails, a component is missing, or a parent is not a directory
StepFails ==
    /\ HasComponent(rp.path)
    /\ \/ rp.env # AllOk
       \/ NamedInode(vol, Canonical(rp.path), 1, EXT4_ROOT_INO) = 0

\* C23: ext4 path resolution returns inode 0 whenever any step fails: an
\* inode read error, a component that is not found in its parent
\* directory, or a parent inode that is not a directory (a path that
\* continues below a regular file never resolves to a non-zero inode).
C23_FailedStepGivesZero == (rp.called /\ StepFails) => rp.ino = 0

\* what holds: read errors and missing components give 0, and a path
\* through directories resolves to the inode it names
ResolvesThroughDirectories ==
    (rp.called /\ rp.path \notin BelowFilePaths) =>
        rp.ino = (IF StepFails THEN 0
                  ELSE NamedInode(vol, Canonical(rp.path), 1, EXT4_ROOT_INO))

\* "\f\v" resolved to inode 12 through the bytes of the regular file "f"
ResolvedBelowRegularFile ==
    /\ rp.called
    /\ rp.path = <<"\\", "f", "\\", "v">>
    /\ ~vol.inodes[13].is_dir
    /\ rp.ino = 12

(***************************************************************************)
(* setup_size and the handover entry for every setup_sects (boot/linux.c)  *)
(***************************************************************************)
SetupSects == 0..255

\* where kernel_buf may sit, and the handover offsets an image may carry
KernelBufs == {4096, 1048576 + 4096}
HandoverOffsets == {0, 400, 912}

Sizing(at, sects, ho, buf, size, entry) ==
    [at |-> at, setup_sects |-> sects, handover_offset |-> ho,
     kernel_buf |-> buf, setup_size |-> size, entry |-> entry]

IdleSizing == sizing = Sizing("idle", 0, 0, 0, 0, 0)

InitSizing ==
    sizing \in { Sizing("image", s, ho, b, 0, 0) :
                   s \in SetupSects, ho \in HandoverOffsets, b \in KernelBufs }

SizingHeader ==
    SetupHeader(sizing.setup_sects, HdrS, HANDOVER_MIN_VERSION, 0, 1, 1, 0,
                sizing.handover_offset)

\* boot_efi_handover up to the entry address; EFI_UNSUPPORTED on offset 0
SizeHandover ==
    /\ sizing.at = "image"
    /\ sizing' = IF sizing.handover_offset = 0
                 THEN [sizing EXCEPT !.at = "unsupported"]
                 ELSE [sizing EXCEPT
                         !.at = "handover",
                         !.setup_size = setup_size(SizingHeader),
                         !.entry = handover_entry(sizing.kernel_buf,
                                                  SizingHeader)]
    /\ UNCHANGED othersOfSizing

\* boot_legacy_bzimage up to setup_size, directly or after EFI_UNSUPPORTED
SizeLegacy ==
    /\ sizing.at \in {"image", "unsupported"}
    /\ sizing' = [sizing EXCEPT !.at = "legacy",
                                !.setup_size = setup_size(SizingHeader)]
    /\ UNCHANGED othersOfSizing

NextSizing == SizeHandover \/ SizeLegacy

Sized == sizing.at \in {"handover", "legacy"}

\* C24 as stated: for every setup_sects in 0..255 both paths compute
\* setup_size = (max(setup_sects, 4) + 1) * 512, and the handover entry is
\* kernel_buffer + setup_size + handover_offset + 512.
C24_SetupSizeIsMaxWithFour ==
    Sized =>
        /\ sizing.setup_size = (Max(sizing.setup_sects, 4) + 1) * 512
        /\ sizing.at = "handover" =>
             sizing.entry = sizing.kernel_buf + sizing.setup_size
                            + sizing.handover_offset + 512

\* C24 amended: for every setup_sects in 0..255 both paths take a
\* setup_sects of 0 to mean 4 and leave every other value as it is, so
\* setup_size = ((setup_sects = 0 ? 4 : setup_sects) + 1) * 512 (1024, 1536
\* and 2048 for 1, 2 and 3), and the handover entry is kernel_buffer +
\* setup_size + handover_offset + 512.
C24_SetupSizeZeroMeansFour ==
    Sized =>
        /\ sizing.setup_sects = 0 => sizing.setup_size = 2560
        /\ sizing.setup_sects # 0 =>
             sizing.setup_size = (sizing.setup_sects + 1) * 512
        /\ sizing.at = "handover" =>
             sizing.entry = sizing.kernel_buf + sizing.setup_size
                            + sizing.handover_offset + 512

\* a handover entry computed for an image with two setup sectors
C24_Witness ==
    /\ sizing.at = "handover"
    /\ sizing.setup_sects = 2
    /\ sizing.setup_size = 1536
    /\ sizing.entry = sizing.kernel_buf + 1536 + sizing.handover_offset + 512

(***************************************************************************)
(* The protocol version sb_boot_linux accepts (boot/linux.c, loader.h)     *)
(***************************************************************************)
\* the handover entry was called, ExitBootServices was called, or the
\* kernel was jumped to
HandOffBegun == handoff.kind # "none" \/ EbsCalls # {}

OnHandoverPath == pc \in {"handover", "handed_over"} \/ handoff.kind = "handover"

\* C25: only kernels whose setup-header version is at least 0x0206 are
\* handed off to: an image with the HdrS magic and a lower version is
\* rejected before the handover call, ExitBootServices or the jump; and the
\* EFI handover path is taken only when version >= 0x020B and
\* handover_offset != 0.
C25_OldProtocolRejected ==
    /\ HandOffBegun => kernel.hdr.version >= LINUX_MIN_BOOT_VERSION
    /\ OnHandoverPath =>
         /\ kernel.hdr.version >= HANDOVER_MIN_VERSION
         /\ kernel.hdr.handover_offset # 0

\* the part of C25 that holds: the handover path is entered only with
\* version >= 0x020B and a handover offset, and the entry is called only
\* with a non-zero offset
HandoverOnlyWhenSupported ==
    /\ OnHandoverPath => kernel.hdr.version >= HANDOVER_MIN_VERSION
    /\ pc = "handover" => kernel.hdr.handover_offset # 0
    /\ handoff.kind = "handover" => kernel.hdr.handover_offset # 0

\* reached: a kernel of protocol 2.04 has been jumped to
OldProtocolJumpedTo ==
    /\ handoff.kind = "legacy"
    /\ kernel.hdr.header = HdrS
    /\ kernel.hdr.version < LINUX_MIN_BOOT_VERSION

(***************************************************************************)
(* The copy of the protected-mode kernel (boot/linux.c)                    *)
(***************************************************************************)
\* the image went past "Validate the kernel image"
PassedValidation ==
    /\ pc \notin {"idle", "validate"}
    /\ kernel.size >= MIN_KERNEL_SIZE
    /\ kernel.hdr.header = HdrS

\* the CopyMem read inside kernel_buf and wrote inside the pages allocated
CopyInBounds ==
    /\ loc.copy.len >= 0
    /\ loc.copy.from + loc.copy.len <= kernel.size
    /\ loc.copy.len <= loc.copy.pages * PAGE_SIZE

\* C26: for every image that passes validation (size >= 0x260 and HdrS),
\* setup_size does not exceed kernel_size, so kernel_raw_size does not wrap,
\* and the copy of kernel_buf[setup_size..] reads only inside the kernel
\* buffer and writes only inside the pages allocated for the destination.
C26_SetupFitsInKernel ==
    PassedValidation =>
        /\ setup_size(kernel.hdr) <= kernel.size
        /\ kernel_raw_size(kernel) >= 0
        /\ loc.copy.done => CopyInBounds

\* what holds: an image that holds all the setup sectors its header
\* announces is copied within both buffers
CopyInBoundsWhenSetupFits ==
    PassedValidation /\ setup_size(kernel.hdr) <= kernel.size /\ loc.copy.done
        => CopyInBounds

\* reached: a 0x260-byte image passed validation, its kernel_raw_size
\* wrapped, 0 pages were allocated and the copy ran with the wrapped length
WrappedCopy ==
    /\ PassedValidation
    /\ kernel.size < setup_size(kernel.hdr)
    /\ pc = "fault"
    /\ loc.copy.done /\ loc.copy.len < 0 /\ loc.copy.pages = 0

(***************************************************************************)
(* The 32-bit fields of the zero page at hand-off (boot/linux.c)           *)
(***************************************************************************)
HandedOff == handoff.kind # "none"

\* C27: at every hand-off ramdisk_image and ramdisk_size are the full
\* address and total size of the initrd region, cmd_line_ptr is the full
\* address of a copy of the entry's cmdline, and on the legacy path
\* code32_start is the address jumped to; also after the any-address
\* fallbacks of the initrd and kernel allocations.
C27_ZeroPageFieldsAreFullAddresses ==
    HandedOff =>
        /\ handoff.bp.hdr.ramdisk_image = loc.initrd_addr
        /\ handoff.bp.hdr.ramdisk_size = loc.initrd_size
        /\ loc.cmdline # 0
        /\ handoff.bp.hdr.cmd_line_ptr = loc.cmdline
        /\ handoff.kind = "legacy" =>
             handoff.bp.hdr.code32_start = handoff.entry

\* every object the zero page points at sits below 4 GiB
AllBelow4GiB ==
    /\ loc.initrd_addr = Trunc32(loc.initrd_addr)
    /\ loc.cmdline = Trunc32(loc.cmdline)
    /\ loc.kernel_addr = Trunc32(loc.kernel_addr)

\* what holds: the fields are the low 32 bits of the addresses, so they
\* describe the objects whenever those sit below 4 GiB and the cmdline
\* copy was allocated
ZeroPageFieldsAreLow32Bits ==
    HandedOff =>
        /\ handoff.bp.hdr.ramdisk_image = Trunc32(loc.initrd_addr)
        /\ handoff.bp.hdr.ramdisk_size = loc.initrd_size
        /\ loc.cmdline # 0 =>
             handoff.bp.hdr.cmd_line_ptr = Trunc32(loc.cmdline)
        /\ handoff.kind = "legacy" =>
             handoff.bp.hdr.code32_start = Trunc32(handoff.entry)
        /\ AllBelow4GiB /\ loc.cmdline # 0 =>
             /\ handoff.bp.hdr.ramdisk_image = loc.initrd_addr
             /\ handoff.bp.hdr.cmd_line_ptr = loc.cmdline
             /\ handoff.kind = "legacy" =>
                  handoff.bp.hdr.code32_start = handoff.entry

\* reached: the kernel was jumped to with an initrd region above 4 GiB
\* whose address lost its upper bits in ramdisk_image
InitrdAddressTruncated ==
    /\ handoff.kind = "legacy"
    /\ loc.initrd_addr = HighPages
    /\ handoff.bp.hdr.ramdisk_image # loc.initrd_addr

(***************************************************************************)
(* The index field of the entries (config/limine.c, systemd_boot.c)        *)
(***************************************************************************)
Listed == 1..targets.count

\* C28 as stated: after the scan each entry's index is its insertion
\* position in the global list (entries[i].index == i), so indexes are
\* pairwise distinct across config files, parsers and partitions.
C28_IndexIsGlobalPosition ==
    scan.pc = "done" =>
        /\ \A i \in Listed : targets.entries[i].index = i - 1
        /\ \A i \in Listed, j \in Listed :
               i # j => targets.entries[i].index # targets.entries[j].index

\* C28 amended: an entry's index is its position among the entries of the
\* parse call that produced it, counted from 0 in each source config: the
\* entries a call adds at list positions lo .. lo + found - 1 carry indexes
\* 0 .. found - 1, and along the list the index either restarts at 0 or
\* follows the index of the entry before it, which came from the same
\* partition and parser.
C28_IndexCountsWithinSource ==
    /\ parseCall.called /\ ~EFI_ERROR(parseCall.status) =>
         \A s \in 0..(parseCall.found - 1) :
             targets.entries[parseCall.lo + s + 1].index = s
    /\ \A i \in Listed :
         \/ targets.entries[i].index = 0
         \/ /\ i > 1
            /\ targets.entries[i].index = targets.entries[i - 1].index + 1
            /\ targets.entries[i].device_handle
                   = targets.entries[i - 1].device_handle
            /\ targets.entries[i].config_type
                   = targets.entries[i - 1].config_type

\* the scan ended with entries of two section files on two partitions in
\* the list: both files' first entries carry index 0, and the second entry
\* of the later file carries index 1 behind them
C28_Witness ==
    /\ scan.pc = "done"
    /\ \E i \in Listed, j \in Listed :
         /\ i < j /\ j + 1 \in Listed
         /\ targets.entries[i].config_type = CONFIG_TYPE_LIMINE
         /\ targets.entries[j].config_type = CONFIG_TYPE_LIMINE
         /\ targets.entries[i].device_handle # targets.entries[j].device_handle
         /\ targets.entries[i].index = 0
         /\ targets.entries[j].index = 0
         /\ targets.entries[j + 1].index = 1
         /\ targets.entries[j + 1].device_handle
                = targets.entries[j].device_handle

(***************************************************************************)
(* The default entry of systemd_boot_parse (config/systemd_boot.c)         *)
(***************************************************************************)
\* entry files of \loader\entries in one directory
MaxEntryFiles == 2
\* lines of loader.conf
MaxConfLines == 2

\* file names and patterns are sequences of characters; ".conf" stands for
\* the five characters of the extension
FileNames ==
    { <<"a", ".conf">>, <<"a", "-", "b", ".conf">>, <<"b", ".conf">>,
      <<WideChar, ".conf">> }

Patterns == { <<>>, <<"a">>, <<"b">>, <<"a", ".conf">>, <<"a", "-", "*">> }

ConfLine(key, value) == [key |-> key, value |-> value]

ConfLines ==
    {ConfLine("default", pat) : pat \in Patterns}
        \cup {ConfLine("timeout", <<"5">>)}

EntryFile(name, kind) == [name |-> name, kind |-> kind]

EntryFiles == {EntryFile(n, k) : n \in FileNames, k \in {"entry", "empty"}}

\* the loop over the lines of loader.conf from line k on: every line that
\* starts with "default" overwrites default_pattern with the rest of it
RECURSIVE default_pattern(_, _, _)
default_pattern(lines, k, pattern) ==
    IF k > Len(lines) THEN pattern
    ELSE default_pattern(lines, k + 1,
                         IF lines[k].key = "default" THEN lines[k].value
                         ELSE pattern)

\* util/string.c: the needle occurs somewhere in the haystack
sb_strstr8(haystack, needle) ==
    \/ needle = <<>>
    \/ \E i \in 1..Len(haystack) :
         /\ i + Len(needle) - 1 <= Len(haystack)
         /\ \A j \in 1..Len(needle) : haystack[i + j - 1] = needle[j]

\* "Mark default entry"
is_default(FileName, pattern) ==
    pattern # <<>> /\ sb_strstr8(sb_str16to8(FileName, 256), pattern)

\* the write of slot *count with the mark of the entry file it came from;
\* parse_entry_file zeroes the slot first, so a mark left there by an
\* uncounted entry does not survive
mark_default(w, files, pattern) ==
    SlotWrite(w.at,
              [is_default |-> is_default(files[w.entry.title].name, pattern)]
                  @@ w.entry)

DefaultCall(called, conf, files, max, found, slice) ==
    [called |-> called, conf |-> conf, files |-> files, max |-> max,
     found |-> found, slice |-> slice]

IdleDefault == dm = DefaultCall(FALSE, <<>>, <<>>, 0, 0, <<>>)

InitDefault ==
    dm \in { DefaultCall(FALSE, conf, files, max, 0, <<>>) :
               conf \in SeqsUpTo(ConfLines, MaxConfLines),
               files \in SeqsUpTo(EntryFiles, MaxEntryFiles),
               max \in {1, MaxEntryFiles} }

\* systemd_boot_parse on loader.conf and the entry files, into a zeroed
\* slice of max slots
DefaultParse ==
    /\ ~dm.called
    /\ \E pattern \in {default_pattern(dm.conf, 1, <<>>)} :
       \E res \in {sd_entries([k \in 1..Len(dm.files) |-> dm.files[k].kind],
                              1, 1, dm.max, 0, <<>>)} :
       \E marked \in {[k \in 1..Len(res.writes) |->
                         mark_default(res.writes[k], dm.files, pattern)]} :
            dm' = [dm EXCEPT
                     !.called = TRUE,
                     !.found = res.found,
                     !.slice = SliceAfter(
                                   [s \in 1..dm.max |->
                                      [is_default |-> FALSE] @@ ZeroTarget],
                                   marked)]
    /\ UNCHANGED othersOfDefault

NextDefault == DefaultParse

\* the emitted entries (the first *count slots) that carry is_default
Defaults == {s \in 1..dm.found : dm.slice[s].is_default}

\* C29: among the entries produced by one parse call at most one has
\* is_default set, for every `default` pattern of loader.conf and every set
\* of entry file names.
C29_AtMostOneDefault ==
    dm.called => Cardinality(Defaults) <= 1

\* what holds: an emitted entry is marked exactly when the pattern is not
\* empty and occurs in the name of its file, so at most one is marked when
\* at most one file name contains the pattern
MarkedIffNameHoldsPattern ==
    dm.called =>
        \A s \in 1..dm.found :
            dm.slice[s].is_default
                <=> is_default(dm.files[dm.slice[s].title].name,
                               default_pattern(dm.conf, 1, <<>>))

\* reached: `default a` with a.conf and a-b.conf marks both entries
TwoDefaultsEmitted ==
    /\ dm.called
    /\ dm.conf = <<ConfLine("default", <<"a">>)>>
    /\ dm.found = 2
    /\ dm.slice[1].is_default /\ dm.slice[2].is_default
    /\ dm.files[dm.slice[1].title].name # dm.files[dm.slice[2].title].name

(***************************************************************************)
(* Firmware services after ExitBootServices (boot/linux.c, main.c)         *)
(***************************************************************************)
MapServices == {"GetMemoryMap", "ExitBootServices"}

\* the calls sb_boot_linux made after its first ExitBootServices call
AfterExitCalls ==
    {j \in 1..Len(calls) : \E i \in EbsCalls : i < j}

\* C30: once ExitBootServices has been called, whether it succeeded or
\* failed, no firmware boot service other than GetMemoryMap and
\* ExitBootServices is invoked: no allocation, no console output and no
\* handle lookup, also when the retry fails and the error goes back to the
\* orchestrator.
C30_OnlyMapServicesAfterExit ==
    /\ \A j \in AfterExitCalls : calls[j].op \in MapServices
    /\ EbsCalls # {} =>
         \A k \in 1..Len(mainCalls) : mainCalls[k].op \in MapServices

\* what holds: boot_legacy_bzimage itself calls nothing but the two map
\* services once it has called ExitBootServices
LoaderCallsOnlyMapServicesAfterExit ==
    \A j \in AfterExitCalls : calls[j].op \in MapServices

\* reached: both ExitBootServices calls failed, the error came back to
\* efi_main, and it printed and looked up handles for the file browser
ConsoleAfterFailedExit ==
    /\ pc = "returned"
    /\ Cardinality(EbsCalls) = 2
    /\ \A i \in EbsCalls : ~calls[i].ok
    /\ Len(mainCalls) = 3
    /\ mainCalls[1].op = "Print"
    /\ mainCalls[3].op = "LocateHandleBuffer"

(***************************************************************************)
(* Specifications                                                          *)
(***************************************************************************)
\* the Linux loader booting one entry
Init ==
    /\ InitBoot
    /\ IdleExt4
    /\ InitVfs
    /\ InitScan
    /\ IdleParse
    /\ IdleConv
    /\ IdleResolve
    /\ IdleMain
    /\ IdleSizing
    /\ IdleDefault
    /\ IdleAfter

Next == NextBoot

Spec == Init /\ [][Next]_vars

\* the ext4 driver's callbacks on one volume
Ext4Init ==
    /\ IdleBoot
    /\ InitExt4
    /\ InitVfs
    /\ InitScan
    /\ IdleParse
    /\ IdleConv
    /\ IdleResolve
    /\ IdleMain
    /\ IdleSizing
    /\ IdleDefault
    /\ IdleAfter

SpecExt4 == Ext4Init /\ [][NextExt4]_vars

\* calls on the VFS dispatcher
VfsInit ==
    /\ IdleBoot
    /\ IdleExt4
    /\ InitVfs
    /\ InitScan
    /\ IdleParse
    /\ IdleConv
    /\ IdleResolve
    /\ IdleMain
    /\ IdleSizing
    /\ IdleDefault
    /\ IdleAfter

SpecVfs == VfsInit /\ [][NextVfs]_vars

\* the scan efi_main runs after sb_init_context and sb_vfs_init
ScanInit ==
    /\ IdleBoot
    /\ IdleExt4
    /\ InitVfs
    /\ InitScan
    /\ IdleParse
    /\ IdleConv
    /\ IdleResolve
    /\ IdleMain
    /\ IdleSizing
    /\ IdleDefault
    /\ IdleAfter

SpecScan == ScanInit /\ [][NextScan]_vars

\* a parser's parse called more than once on the same arguments
ParseInit ==
    /\ IdleBoot
    /\ IdleExt4
    /\ InitVfs
    /\ InitScan
    /\ InitParse
    /\ IdleConv
    /\ IdleResolve
    /\ IdleMain
    /\ IdleSizing
    /\ IdleDefault
    /\ IdleAfter

SpecParse == ParseInit /\ [][NextParse]_vars

\* sb_efi_memmap_to_e820 called on a memory map
ConvInit ==
    /\ IdleBoot
    /\ IdleExt4
    /\ InitVfs
    /\ InitScan
    /\ IdleParse
    /\ InitConv
    /\ IdleResolve
    /\ IdleMain
    /\ IdleSizing
    /\ IdleDefault
    /\ IdleAfter

SpecE820 == ConvInit /\ [][NextE820]_vars

\* ext4_resolve_path called on a mounted volume
ResolveInit ==
    /\ IdleBoot
    /\ InitVfs
    /\ InitScan
    /\ IdleParse
    /\ IdleConv
    /\ InitResolve
    /\ IdleMain
    /\ IdleSizing
    /\ IdleDefault
    /\ IdleAfter

SpecResolve == ResolveInit /\ [][NextResolve]_vars

\* efi_main from entry to its return or the hand-off
MainInit ==
    /\ IdleBoot
    /\ IdleExt4
    /\ InitVfs
    /\ InitScan
    /\ IdleParse
    /\ IdleConv
    /\ IdleResolve
    /\ InitMain
    /\ IdleSizing
    /\ IdleDefault
    /\ IdleAfter

SpecMain == MainInit /\ [][NextMain]_vars

\* setup_size and the handover entry computed for one image
SetupInit ==
    /\ IdleBoot
    /\ IdleExt4
    /\ InitVfs
    /\ InitScan
    /\ IdleParse
    /\ IdleConv
    /\ IdleResolve
    /\ IdleMain
    /\ InitSizing
    /\ IdleDefault
    /\ IdleAfter

SpecSetup == SetupInit /\ [][NextSizing]_vars

\* systemd_boot_parse called on one loader.conf and one entries directory
DefaultInit ==
    /\ IdleBoot
    /\ IdleExt4
    /\ InitVfs
    /\ InitScan
    /\ IdleParse
    /\ IdleConv
    /\ IdleResolve
    /\ IdleMain
    /\ IdleSizing
    /\ InitDefault
    /\ IdleAfter

SpecDefault == DefaultInit /\ [][NextDefault]_vars
====
